---- MODULE Spec2Model ----
(***************************************************************************)
(* Model of the bulk import subsystem of spk2_db                           *)
(* (src/importer/data_importer.go).                                        *)
(*                                                                         *)
(* data_importer.go holds two generations of the importer, one after the   *)
(* other in the same file:                                                 *)
(*   variant "A" (lines 1-982):    ImportData commits one transaction per  *)
(*       batch, transformRecord is the switch over destination columns,    *)
(*       the upsert merges with COALESCE(NULLIF(EXCLUDED.c,''), c);        *)
(*   variant "B" (lines 983-2557): ImportData runs one transaction for     *)
(*       the whole file, rows go through processRecord (bounded retry),    *)
(*       transformRecord applies each mapping's TransformFunc, the upsert  *)
(*       overwrites with EXCLUDED.c, and AnalyzeFailedImports lives here.  *)
(* Both are modelled; the variable `variant` says which one is running.    *)
(*                                                                         *)
(* Strings are sequences of one-character strings, so that trimming, case  *)
(* folding and edit distance are computed the way the code computes them.  *)
(***************************************************************************)
EXTENDS Integers, Sequences, FiniteSets, TLC

(***************************************************************************)
(* Bounds of the model.                                                    *)
(***************************************************************************)
\* longest file (data rows) the model reads
MaxRows == 3
\* environment faults (a failing Exec, a failing Commit) injected per run
MaxFaults == 1
\* largest configured WorkerCount tried by the analyzer
MaxWorkers == 3
\* goroutines calling one resolver instance at the same time
MaxCallers == 2
\* spaces put before and after a state name
MaxPad == 1
\* stand-in for the batch size of 1000 rows (literal at line 594, and
\* DefaultBatchSize), scaled down so that a batch fills within MaxRows
BatchRows == 2

(***************************************************************************)
(* Program constants.                                                      *)
(***************************************************************************)
MaxRetries == 3
DefaultWorkerCount == 4

(***************************************************************************)
(* strings.* helpers                                                       *)
(***************************************************************************)
LowerChars == <<"a","b","c","d","e","f","g","h","i","j","k","l","m",
                "n","o","p","q","r","s","t","u","v","w","x","y","z">>
UpperChars == <<"A","B","C","D","E","F","G","H","I","J","K","L","M",
                "N","O","P","Q","R","S","T","U","V","W","X","Y","Z">>
Digits == <<"0","1","2","3","4","5","6","7","8","9">>

IndexIn(c, seq) ==
    IF \E i \in 1..Len(seq) : seq[i] = c
    THEN CHOOSE i \in 1..Len(seq) : seq[i] = c
    ELSE 0

\* unicode.ToLower / unicode.ToUpper on the letters, as lookup tables
LowerOf == [c \in {UpperChars[i] : i \in 1..Len(UpperChars)} |->
               LowerChars[IndexIn(c, UpperChars)]]
UpperOf == [c \in {LowerChars[i] : i \in 1..Len(LowerChars)} |->
               UpperChars[IndexIn(c, LowerChars)]]

ToLower(s) == [i \in 1..Len(s) |-> IF s[i] \in DOMAIN LowerOf THEN LowerOf[s[i]] ELSE s[i]]

ToUpper(s) == [i \in 1..Len(s) |-> IF s[i] \in DOMAIN UpperOf THEN UpperOf[s[i]] ELSE s[i]]

RECURSIVE TrimLeft(_)
TrimLeft(s) == IF Len(s) > 0 /\ Head(s) = " " THEN TrimLeft(Tail(s)) ELSE s

RECURSIVE TrimRight(_)
TrimRight(s) ==
    IF Len(s) > 0 /\ s[Len(s)] = " " THEN TrimRight(SubSeq(s, 1, Len(s) - 1)) ELSE s

TrimSpace(s) == TrimRight(TrimLeft(s))

\* strings.ReplaceAll(s, c, "")
RemoveChar(s, c) == SelectSeq(s, LAMBDA x : x # c)

\* strings.EqualFold on ASCII
EqualFold(a, b) == ToLower(a) = ToLower(b)

Max(a, b) == IF a > b THEN a ELSE b

Min3(a, b, c) ==
    LET m == IF a < b THEN a ELSE b IN IF c < m THEN c ELSE m

(***************************************************************************)
(* levenshteinDistance: the matrix is filled row by row; LevFill builds    *)
(* row i from row i-1 (prev), LevRows walks the rows.                      *)
(***************************************************************************)
RECURSIVE LevFill(_, _, _, _)
LevFill(prev, c, s2, cur) ==
    LET j == Len(cur) IN
    IF j > Len(s2) THEN cur
    ELSE LevFill(prev, c, s2,
                 Append(cur, IF c = s2[j] THEN prev[j]
                             ELSE Min3(prev[j + 1] + 1, cur[j] + 1, prev[j] + 1)))

RECURSIVE LevRows(_, _, _, _)
LevRows(s1, s2, i, prev) ==
    IF i > Len(s1) THEN prev
    ELSE LET row == LevFill(prev, s1[i], s2, <<i>>) IN
         \* the row is complete before the next one is started
         IF Len(row) = 0 THEN row ELSE LevRows(s1, s2, i + 1, row)

levenshteinDistance(s1, s2) ==
    IF Len(s1) = 0 THEN Len(s2)
    ELSE IF Len(s2) = 0 THEN Len(s1)
    ELSE LevRows(s1, s2, 1, [j \in 1..(Len(s2) + 1) |-> j - 1])[Len(s2) + 1]

(***************************************************************************)
(* getColumnIndex.  Variant A compares lower-cased, trimmed names and      *)
(* their space-free forms; variant B also compares underscore-free forms.  *)
(* 0 stands for the code's -1, positions are 1-based.                      *)
(***************************************************************************)
ColumnNameMatches(v, header, columnName) ==
    LET h == ToLower(TrimSpace(header))
        c == ToLower(TrimSpace(columnName))
    IN  \/ h = c
        \/ RemoveChar(h, " ") = RemoveChar(c, " ")
        \/ v = "B" /\ RemoveChar(h, "_") = RemoveChar(c, "_")

\* the loop over the headers: the first header that matches
RECURSIVE ColumnIndexFrom(_, _, _, _)
ColumnIndexFrom(v, headers, columnName, i) ==
    IF i > Len(headers) THEN 0
    ELSE IF ColumnNameMatches(v, headers[i], columnName) THEN i
    ELSE ColumnIndexFrom(v, headers, columnName, i + 1)

getColumnIndex(v, headers, columnName) == ColumnIndexFrom(v, headers, columnName, 1)

(***************************************************************************)
(* findBestColumnMatch(sourceColumn, requiredColumns).  The confidence     *)
(* 1 - distance/maxLen is kept as the fraction num/den; with maxLen = 0    *)
(* the code divides 0 by 0 and the NaN passes no comparison.               *)
(***************************************************************************)
NormalizeColumn(s) == RemoveChar(RemoveChar(ToLower(TrimSpace(s)), "_"), " ")

Confidence(a, b) ==
    LET na == NormalizeColumn(a)
        nb == NormalizeColumn(b)
        maxLen == Max(Len(na), Len(nb))
    IN  [num |-> maxLen - levenshteinDistance(na, nb), den |-> maxLen]

\* confidence > p/10
ConfidenceAbove(cf, p) == cf.den > 0 /\ 10 * cf.num > p * cf.den

\* a.Confidence > b.Confidence
ConfGreater(a, b) == a.Confidence.num * b.Confidence.den > b.Confidence.num * a.Confidence.den

RECURSIVE SortMatches(_)
SortMatches(ms) ==
    IF Len(ms) = 0 THEN <<>>
    ELSE LET best == CHOOSE i \in 1..Len(ms) :
                        /\ \A k \in 1..Len(ms) : ~ConfGreater(ms[k], ms[i])
                        /\ \A k \in 1..(i - 1) : ConfGreater(ms[i], ms[k])
             rest == [k \in 1..(Len(ms) - 1) |-> IF k < best THEN ms[k] ELSE ms[k + 1]]
         IN  <<ms[best]>> \o SortMatches(rest)

findBestColumnMatch(sourceColumn, requiredColumns) ==
    LET all == [i \in 1..Len(requiredColumns) |->
                   [SourceColumn |-> sourceColumn,
                    DestinationColumn |-> requiredColumns[i],
                    Confidence |-> Confidence(sourceColumn, requiredColumns[i])]]
    IN  SortMatches(SelectSeq(all, LAMBDA m : ConfidenceAbove(m.Confidence, 6)))

(***************************************************************************)
(* validateHeaders.  `answers` holds what the operator types at the        *)
(* prompts, one entry per required column: the number entered at the       *)
(* "select match" prompt, and "y" at the "accept this match" prompt iff    *)
(* the entry is not 0.  The result carries di.columnMapping and the list   *)
(* missingColumns; the call returns an error iff missing is not empty.     *)
(***************************************************************************)
RECURSIVE ValidateFrom(_, _, _, _, _, _)
ValidateFrom(v, headers, required, answers, i, acc) ==
    IF i > Len(required) THEN acc
    ELSE
      LET req == required[i]
          exactMatch == getColumnIndex(v, headers, req) # 0
          matches == findBestColumnMatch(req, headers)
          choice == answers[i]
          picked ==
            IF Len(matches) = 0 THEN <<>>
            ELSE IF Len(matches) > 1
                 THEN (IF choice > 0 /\ choice <= Len(matches)
                       THEN <<matches[choice].SourceColumn>> ELSE <<>>)
            ELSE IF ConfidenceAbove(matches[1].Confidence, 8)
                 THEN <<matches[1].SourceColumn>>
            ELSE IF choice # 0 THEN <<matches[1].SourceColumn>> ELSE <<>>
          next ==
            IF exactMatch
            THEN [acc EXCEPT !.columnMapping = (req :> req) @@ @]
            ELSE IF Len(picked) > 0
            THEN [acc EXCEPT !.columnMapping = (req :> picked[1]) @@ @]
            ELSE [acc EXCEPT !.missing = Append(@, req)]
      IN  ValidateFrom(v, headers, required, answers, i + 1, next)

\* a validateHeaders whose error names the first missing column only
validateHeadersFirstOnly(v, headers, required, answers) ==
    LET all == ValidateFrom(v, headers, required, answers, 1,
                            [columnMapping |-> <<>>, missing |-> <<>>])
    IN  [all EXCEPT !.missing = IF Len(@) > 1 THEN <<@[1]>> ELSE @]

validateHeaders(v, headers, required, answers) ==
    ValidateFrom(v, headers, required, answers, 1,
                 [columnMapping |-> <<>>, missing |-> <<>>])

(***************************************************************************)
(* Column names, and the values of a CSV cell or of a statement parameter. *)
(* Nil is Go's nil / SQL NULL; it is no sequence of characters, so it      *)
(* differs from every string, the empty string included.                   *)
(***************************************************************************)
Nil == <<"NULL">>
IsEmptyValue(x) == x = Nil \/ x = <<>>

H_REGNUMBER == <<"R","E","G","N","U","M","B","E","R">>
H_GENDER == <<"G","E","N","D","E","R">>
H_LG_ID == <<"L","G","_","I","D">>
H_RegNumber == <<"R","e","g","N","u","m","b","e","r">>
H_Gender == <<"G","e","n","d","e","r">>
H_Lga == <<"L","g","a">>
H_Reg_No == <<"R","e","g","_","N","o">>
H_CourseCode == <<"C","o","u","r","s","e","C","o","d","e">>
H_State == <<"S","t","a","t","e">>

\* DefaultColumnMappings, restricted to the primary key, one enum column
\* and one foreign key, and in variant B the two columns a resolver
\* transforms.  Variant A has no TransformFunc (the switch in
\* transformRecord decides by destination column).
DefaultColumnMappings(v) ==
    IF v = "A"
    THEN << [SourceColumn |-> H_REGNUMBER, DestinationColumn |-> "regnumber", TransformFunc |-> "none"],
            [SourceColumn |-> H_GENDER,    DestinationColumn |-> "gender",    TransformFunc |-> "none"],
            [SourceColumn |-> H_LG_ID,     DestinationColumn |-> "lg_id",     TransformFunc |-> "none"] >>
    ELSE << [SourceColumn |-> H_RegNumber, DestinationColumn |-> "regnumber", TransformFunc |-> "transformString"],
            [SourceColumn |-> H_Gender,    DestinationColumn |-> "gender",    TransformFunc |-> "transformGender"],
            [SourceColumn |-> H_State,     DestinationColumn |-> "statecode", TransformFunc |-> "transformState"],
            [SourceColumn |-> H_CourseCode, DestinationColumn |-> "app_course1", TransformFunc |-> "transformCourse"],
            [SourceColumn |-> H_Lga,       DestinationColumn |-> "lg_id",     TransformFunc |-> "transformInt"] >>

(***************************************************************************)
(* The TransformFuncs of variant B.  Each yields [err, value].             *)
(***************************************************************************)
V_M == <<"M">>
V_F == <<"F">>
V_MALE == <<"M","A","L","E">>
V_FEMALE == <<"F","E","M","A","L","E">>

transformString(s) == [err |-> FALSE, value |-> TrimSpace(s)]

transformGender(s) ==
    IF s = <<>> THEN [err |-> FALSE, value |-> Nil]
    ELSE LET u == ToUpper(TrimSpace(s)) IN
         IF u \in {V_M, V_MALE} THEN [err |-> FALSE, value |-> V_M]
         ELSE IF u \in {V_F, V_FEMALE} THEN [err |-> FALSE, value |-> V_F]
         ELSE [err |-> TRUE, value |-> Nil]

\* strconv.Atoi on an unsigned decimal, and the decimal text of the result
IsNumeric(s) == Len(s) > 0 /\ \A i \in 1..Len(s) : IndexIn(s[i], Digits) > 0

RECURSIVE Atoi(_)
Atoi(s) == IF Len(s) = 0 THEN 0
           ELSE 10 * Atoi(SubSeq(s, 1, Len(s) - 1)) + (IndexIn(s[Len(s)], Digits) - 1)

RECURSIVE Itoa(_)
Itoa(n) == IF n < 10 THEN <<Digits[n + 1]>>
           ELSE Append(Itoa(n \div 10), Digits[(n % 10) + 1])

transformInt(s) ==
    IF s = <<>> THEN [err |-> FALSE, value |-> Nil]
    ELSE IF IsNumeric(s) THEN [err |-> FALSE, value |-> Itoa(Atoi(s))]
    ELSE [err |-> TRUE, value |-> Nil]

(***************************************************************************)
(* StateMapper.GetStateID and transformState.  The states table is input:  *)
(* rows [st_id, st_name] in the order the SELECT returns them.             *)
(***************************************************************************)
S_AKWA_IBOM == <<"A","K","W","A"," ","I","B","O","M">>
S_CROSS_RIVER == <<"C","R","O","S","S"," ","R","I","V","E","R">>
S_FCT == <<"F","C","T">>
S_LAGOS == <<"L","A","G","O","S">>

StateTable ==
    << [st_id |-> 3, st_name |-> S_AKWA_IBOM],
       [st_id |-> 9, st_name |-> S_CROSS_RIVER],
       [st_id |-> 15, st_name |-> S_FCT],
       [st_id |-> 25, st_name |-> S_LAGOS] >>

\* "Default to ID STATE if no match found"
StateSentinel == 99

\* a Go map[string]... as a set of [k, v] pairs with pairwise different k
HasKey(m, k) == \E p \in m : p.k = k
MapGet(m, k) == (CHOOSE p \in m : p.k = k).v

\* sm.nameToID after the first n rows of the table were stored by init
NameToIDAfter(n) == { [k |-> StateTable[i].st_name, v |-> StateTable[i].st_id] : i \in 1..n }

\* strings.ReplaceAll(s, a, b) for single characters
ReplaceChar(s, a, b) == [i \in 1..Len(s) |-> IF s[i] = a THEN b ELSE s[i]]

\* strings.Fields: the maximal runs of non-space characters
RECURSIVE FieldsFrom(_, _, _, _)
FieldsFrom(s, i, cur, acc) ==
    IF i > Len(s) THEN (IF cur = <<>> THEN acc ELSE Append(acc, cur))
    ELSE IF s[i] = " "
         THEN FieldsFrom(s, i + 1, <<>>, IF cur = <<>> THEN acc ELSE Append(acc, cur))
         ELSE FieldsFrom(s, i + 1, Append(cur, s[i]), acc)

Fields(s) == FieldsFrom(s, 1, <<>>, <<>>)

\* the specialCases literal of GetStateID, restricted to the entries whose
\* value is a row of StateTable
specialCases ==
    { [k |-> <<"F","C","T"," ","A","B","U","J","A">>, v |-> S_FCT],
      [k |-> <<"F","E","D","E","R","A","L"," ","C","A","P","I","T","A","L"," ","T","E","R","R","I","T","O","R","Y">>, v |-> S_FCT],
      [k |-> <<"A","B","U","J","A">>, v |-> S_FCT],
      [k |-> <<"A","K","W","A","-","I","B","O","M">>, v |-> S_AKWA_IBOM],
      [k |-> <<"C","R","O","S","S","-","R","I","V","E","R">>, v |-> S_CROSS_RIVER] }

\* the fuzzy step: the first row at the least distance
RECURSIVE ClosestFrom(_, _, _, _)
ClosestFrom(rows, i, cleanName, best) ==
    IF i > Len(rows) THEN best
    ELSE LET distance == levenshteinDistance(cleanName, rows[i].st_name) IN
         ClosestFrom(rows, i + 1, cleanName,
                     IF distance < best.minDistance
                     THEN [minDistance |-> distance, closestID |-> rows[i].st_id]
                     ELSE best)

\* GetStateID past the `prepared` check: nameToID is the map the call reads,
\* rows what its own SELECT returns.  Result: [err, id].
GetStateID(nameToID, rows, stateName) ==
    LET trimmed == ToUpper(TrimSpace(stateName))
        cleanName == IF HasKey(specialCases, trimmed)
                     THEN MapGet(specialCases, trimmed) ELSE trimmed
    IN  IF HasKey(nameToID, cleanName)
        THEN [err |-> FALSE, id |-> MapGet(nameToID, cleanName)]
        ELSE LET best == ClosestFrom(rows, 1, cleanName,
                                     [minDistance |-> 1000, closestID |-> 0])
             IN  IF best.minDistance <= 2
                 THEN [err |-> FALSE, id |-> best.closestID]
                 ELSE [err |-> TRUE, id |-> 0]

NoLookup == [err |-> FALSE, id |-> 0]

\* the foreignStates literal of transformState, restricted to three entries
S_UNITED_KINGDOM == <<"U","N","I","T","E","D"," ","K","I","N","G","D","O","M">>
foreignStates ==
    { [k |-> <<"L","O","N","D","O","N">>, v |-> S_UNITED_KINGDOM],
      [k |-> <<"U","K">>, v |-> S_UNITED_KINGDOM],
      [k |-> <<"C","A","M","E","R","O","U","N">>, v |-> <<"C","A","M","E","R","O","O","N">>] }

\* `for _, word := range words`: the first word GetStateID resolves
RECURSIVE FirstWordID(_, _, _, _)
FirstWordID(nameToID, rows, words, i) ==
    IF i > Len(words) THEN [err |-> TRUE, id |-> 0]
    ELSE LET r == GetStateID(nameToID, rows, words[i]) IN
         IF ~r.err THEN r ELSE FirstWordID(nameToID, rows, words, i + 1)

\* transformState with a state table that is no match for anything but the
\* exact, cleaned name
transformStateExact(nameToID, rows, s) ==
    IF s = <<>> THEN [err |-> FALSE, value |-> Nil]
    ELSE IF HasKey(nameToID, s) THEN [err |-> FALSE, value |-> Itoa(MapGet(nameToID, s))]
    ELSE [err |-> FALSE, value |-> Itoa(StateSentinel)]

\* transformState failing the row where no state matches
transformStateStrict(nameToID, rows, s) ==
    IF s = <<>> THEN [err |-> FALSE, value |-> Nil]
    ELSE LET r == GetStateID(nameToID, rows, ReplaceChar(TrimSpace(ToUpper(s)), "-", " ")) IN
         IF r.err THEN [err |-> TRUE, value |-> Nil]
         ELSE [err |-> FALSE, value |-> Itoa(r.id)]

\* transformState.  Result: [err, value] like every TransformFunc; the id
\* is written in decimal, as the driver sends it.
transformState(nameToID, rows, s) ==
    IF s = <<>> THEN [err |-> FALSE, value |-> Nil]
    ELSE LET s1 == ReplaceChar(TrimSpace(ToUpper(s)), "-", " ")
             s2 == IF HasKey(foreignStates, s1) THEN MapGet(foreignStates, s1) ELSE s1
             r == GetStateID(nameToID, rows, s2)
         IN  IF ~r.err THEN [err |-> FALSE, value |-> Itoa(r.id)]
             ELSE LET w == FirstWordID(nameToID, rows, Fields(ReplaceChar(s2, "-", " ")), 1) IN
                  IF ~w.err THEN [err |-> FALSE, value |-> Itoa(w.id)]
                  ELSE [err |-> FALSE, value |-> Itoa(StateSentinel)]

(***************************************************************************)
(* transformCourse and the courses table: rows [corcode, name].            *)
(***************************************************************************)
C_100202H == <<"1","0","0","2","0","2","H">>
C_100203H == <<"1","0","0","2","0","3","H">>
N_LAW == <<"L","A","W">>
N_Course == <<"C","o","u","r","s","e"," ">>

\* the courses table before the run
CourseTable == { [corcode |-> C_100202H, name |-> N_LAW] }

\* unicode.IsLetter(r) || unicode.IsNumber(r) on ASCII
IsAlnum(c) == c \in DOMAIN LowerOf \/ c \in DOMAIN UpperOf \/ IndexIn(c, Digits) > 0

\* the code transformCourse checks and returns: upper case, trimmed, the
\* characters that are no letter or digit removed
CleanCourseCode(s) == SelectSeq(TrimSpace(ToUpper(s)), IsAlnum)

\* transformCourse, its value: [err, value]
transformCourse(s) ==
    IF s = <<>> THEN [err |-> FALSE, value |-> Nil]
    ELSE IF Len(CleanCourseCode(s)) # 7 THEN [err |-> TRUE, value |-> Nil]
    ELSE [err |-> FALSE, value |-> CleanCourseCode(s)]

\* the same INSERT ending in ON CONFLICT (corcode) DO UPDATE
InsertOverwriting(table, code) ==
    {r \in table : r.corcode # code} \cup {[corcode |-> code, name |-> N_Course \o code]}

\* INSERT INTO courses (corcode, "COURSE NAME") VALUES (code, 'Course ' ||
\* code) ON CONFLICT (corcode) DO NOTHING
InsertPlaceholder(table, code) ==
    IF \E r \in table : r.corcode = code THEN table
    ELSE table \cup {[corcode |-> code, name |-> N_Course \o code]}

\* transformCourse, its writes: the table after the call on s
CoursesAfter(table, s) ==
    IF s = <<>> \/ Len(CleanCourseCode(s)) # 7 THEN table
    ELSE InsertPlaceholder(table, CleanCourseCode(s))

\* The value of a TransformFunc.  GetStateID finds a name of the table in
\* its map or, failing that, at distance 0 in its own SELECT, so the value
\* of transformState is the same for every map the mapper may hold.
ApplyTransformFunc(f, s) ==
    CASE f = "transformString" -> transformString(s)
      [] f = "transformGender" -> transformGender(s)
      [] f = "transformInt"    -> transformInt(s)
      [] f = "transformState"  -> transformState(NameToIDAfter(Len(StateTable)), StateTable, s)
      [] f = "transformCourse" -> transformCourse(s)

(***************************************************************************)
(* transformRecord.  Result: [err, column, values]; values is the          *)
(* parameter list of the upsert, in the order of the column mappings.      *)
(***************************************************************************)
\* variant A, lines 829-868: never fails
TransformValueA(mapping, headers, record) ==
    LET idx == getColumnIndex("A", headers, mapping.SourceColumn) IN
    IF idx = 0 \/ idx > Len(record) THEN Nil
    ELSE LET value == TrimSpace(record[idx]) IN
         IF value = <<>> THEN Nil
         ELSE IF mapping.DestinationColumn = "gender"
              THEN (IF EqualFold(value, V_M) \/ EqualFold(value, V_MALE) THEN V_M
                    ELSE IF EqualFold(value, V_F) \/ EqualFold(value, V_FEMALE) THEN V_F
                    ELSE Nil)
              ELSE value

RECURSIVE TransformFromA(_, _, _, _, _)
TransformFromA(mappings, headers, record, i, values) ==
    IF i > Len(mappings) THEN [err |-> FALSE, column |-> <<>>, values |-> values]
    ELSE TransformFromA(mappings, headers, record, i + 1,
                        Append(values, TransformValueA(mappings[i], headers, record)))

transformRecordA(mappings, headers, record) ==
    TransformFromA(mappings, headers, record, 1, <<>>)

\* variant B, lines 2368-2392: the first failing TransformFunc fails the row
TransformValueB(mapping, headers, record) ==
    LET idx == getColumnIndex("B", headers, mapping.SourceColumn) IN
    IF idx = 0 \/ idx > Len(record) THEN [err |-> FALSE, value |-> Nil]
    ELSE ApplyTransformFunc(mapping.TransformFunc, record[idx])

RECURSIVE TransformFromB(_, _, _, _, _)
TransformFromB(mappings, headers, record, i, values) ==
    IF i > Len(mappings) THEN [err |-> FALSE, column |-> <<>>, values |-> values]
    ELSE LET r == TransformValueB(mappings[i], headers, record) IN
         IF r.err
         THEN [err |-> TRUE, column |-> mappings[i].SourceColumn, values |-> <<>>]
         ELSE TransformFromB(mappings, headers, record, i + 1, Append(values, r.value))

transformRecordB(mappings, headers, record) ==
    TransformFromB(mappings, headers, record, 1, <<>>)

\* The TransformFunc calls transformRecord makes on a record, in order:
\* [f, arg] for every mapping whose column the record has, up to and
\* including the first that fails.  Variant A calls none.
RECURSIVE CallsFromB(_, _, _, _, _)
CallsFromB(mappings, headers, record, i, calls) ==
    IF i > Len(mappings) THEN calls
    ELSE LET idx == getColumnIndex("B", headers, mappings[i].SourceColumn) IN
         IF idx = 0 \/ idx > Len(record)
         THEN CallsFromB(mappings, headers, record, i + 1, calls)
         ELSE LET call == [f |-> mappings[i].TransformFunc, arg |-> record[idx]] IN
              IF ApplyTransformFunc(call.f, call.arg).err THEN Append(calls, call)
              ELSE CallsFromB(mappings, headers, record, i + 1, Append(calls, call))

TransformCalls(v, headers, record) ==
    IF v = "A" THEN <<>>
    ELSE CallsFromB(DefaultColumnMappings("B"), headers, record, 1, <<>>)

\* does the record make transformState call GetStateID
CallsGetStateID(calls) ==
    \E k \in 1..Len(calls) : calls[k].f = "transformState" /\ calls[k].arg # <<>>

\* the courses table after the transformCourse calls of a record
RECURSIVE CoursesAfterCalls(_, _, _)
CoursesAfterCalls(table, calls, k) ==
    IF k > Len(calls) THEN table
    ELSE CoursesAfterCalls(IF calls[k].f = "transformCourse"
                           THEN CoursesAfter(table, calls[k].arg) ELSE table,
                           calls, k + 1)

transformRecord(v, headers, record) ==
    IF v = "A" THEN transformRecordA(DefaultColumnMappings("A"), headers, record)
    ELSE transformRecordB(DefaultColumnMappings("B"), headers, record)

(***************************************************************************)
(* The candidate table and the upsert statement.  A table is a set of      *)
(* rows [regnumber, gender, lg_id] with pairwise different regnumber.      *)
(***************************************************************************)
Columns == <<"regnumber", "gender", "lg_id">>

\* lg_id is the last mapping of both variants
ValuesToRow(values) ==
    [regnumber |-> values[1], gender |-> values[2], lg_id |-> values[Len(values)]]

\* buildUpdateClause / the updateClauses loop of prepareInsertStatement: one
\* assignment per column other than the primary key.  coalesce marks
\* "c = COALESCE(NULLIF(EXCLUDED.c, ''), candidate.c)" (variant A, line 737)
\* against "c = EXCLUDED.c" (variant B, line 2447).
UpdateClauseShifted(v) ==
    LET cols == SelectSeq(Columns, LAMBDA c : c # "regnumber") IN
    [i \in 1..Len(cols) |->
        [col |-> cols[i], src |-> cols[(i % Len(cols)) + 1], coalesce |-> (v = "A")]]

buildUpdateClause(v) ==
    LET cols == SelectSeq(Columns, LAMBDA c : c # "regnumber") IN
    [i \in 1..Len(cols) |-> [col |-> cols[i], src |-> cols[i], coalesce |-> (v = "A")]]

\* ON CONFLICT (regnumber) DO UPDATE SET <clause>
ApplyUpdate(clause, stored, incoming) ==
    [c \in DOMAIN stored |->
        IF \E i \in 1..Len(clause) : clause[i].col = c
        THEN LET u == clause[CHOOSE i \in 1..Len(clause) : clause[i].col = c] IN
             IF u.coalesce /\ IsEmptyValue(incoming[u.src]) THEN stored[c]
             ELSE incoming[u.src]
        ELSE stored[c]]

\* INSERT ... ON CONFLICT (regnumber) DO UPDATE, on the table of the open
\* transaction
ExecUpsert(v, table, incoming) ==
    IF \E r \in table : r.regnumber = incoming.regnumber
    THEN LET old == CHOOSE r \in table : r.regnumber = incoming.regnumber IN
         (table \ {old}) \cup {ApplyUpdate(buildUpdateClause(v), old, incoming)}
    ELSE table \cup {incoming}

\* canonical lga.lg_id values, and the default of transformLGA (line 2109)
LgaIDs == {<<"1","0","1">>, <<"1","0","2">>}
LgaSentinel == <<"1","0","1">>

\* candidate.regnumber is the primary key and NOT NULL, candidate.lg_id is
\* an integer with a foreign key to lga.lg_id: the store refuses a NULL
\* key and an lg_id that is no row of lga, every time.
StoreRejects(incoming) ==
    \/ incoming.regnumber = Nil
    \/ incoming.lg_id \notin LgaIDs \cup {Nil}

(***************************************************************************)
(* Inputs: files, header rows and configurations.                          *)
(***************************************************************************)
Row1 == << <<"R","1">>, <<"m","a","l","e">>, <<"1","0","1">> >>
Row2 == << <<"R","1">>, <<>>, <<"1","0","2">> >>
Row3 == << <<>>, <<"F">>, <<"1","0","1">> >>
Row4 == << <<"R","2">>, <<"x">>, <<"1","0","2">> >>
Row5 == << <<"R","2">>, <<"F">>, <<"7">> >>
\* a record with the wrong number of fields: csv.Reader.Read returns
\* ErrFieldCount for it
RowShort == << <<"R","3">> >>

RowPool == {Row1, Row2, Row3, Row4, Row5, RowShort}

\* the CSV bodies: up to MaxRows distinct lines of the pool, in any order
\* (Row1 and Row2 carry the same registration number)
Files ==
    { f \in UNION {[1..n -> RowPool] : n \in 0..MaxRows} :
        \A i, j \in 1..Len(f) : f[i] = f[j] => i = j }

HeadersUpper == <<H_REGNUMBER, H_GENDER, H_LG_ID>>
HeadersCamel == <<H_RegNumber, H_Gender, H_Lga>>
HeadersAlt == <<H_Reg_No, H_Gender, H_Lga>>
H_Gend == <<"G","e","n","d">>
H_RegNumbers == <<"R","e","g","N","u","m","b","e","r","s">>
H_RegNumb == <<"R","e","g","N","u","m","b">>
\* header rows with names close to RegNumber and none equal to it
HeadersPlural == <<H_RegNumbers, H_Gender, H_Lga>>
HeadersClose == <<H_RegNumbers, H_RegNumb, H_Lga>>

\* (header row, config.RequiredColumns) pairs
HeaderConfigs ==
    { [headers |-> HeadersUpper, required |-> <<>>],
      [headers |-> HeadersCamel, required |-> <<H_RegNumber, H_Gend>>],
      [headers |-> HeadersAlt,   required |-> <<H_RegNumber, H_CourseCode>>] }

ReadFails(record, hdrs) == Len(record) # Len(hdrs)

\* a file with the columns the resolvers transform, for the analyzer
HeadersResolved == <<H_RegNumber, H_State, H_CourseCode>>
RowNewCourse == << <<"R","3">>, <<"A","k","w","a","-","I","b","o","m">>, <<"1","0","0","2","0","3","h">> >>
RowKnownCourse == << <<"R","4">>, <<>>, <<"1","0","0","2","0","2","H">> >>
RowNoState == << <<"R","5">>, <<"N","o","w","h","e","r","e">>, <<"1","2">> >>
ResolvedRowPool == {RowNewCourse, RowKnownCourse, RowNoState}

ResolvedFiles ==
    { f \in UNION {[1..n -> ResolvedRowPool] : n \in 0..MaxRows} :
        \A i, j \in 1..Len(f) : f[i] = f[j] => i = j }

(***************************************************************************)
(* State.                                                                  *)
(***************************************************************************)
VARIABLES
    \* configuration and input of the run
    variant,          \* "A" or "B": which generation of the importer runs
    headers,          \* the header row of the file
    required,         \* config.RequiredColumns
    cfgBatchSize,     \* config.BatchSize (0: not set)
    cfgWorkerCount,   \* config.WorkerCount (0: not set)
    file,             \* the data rows of the file
    \* environment
    cancelled,        \* ctx.Done() is closed
    faultsLeft,       \* faults the environment may still inject
    \* ImportData
    pc,               \* where ImportData stands
    pos,              \* next row reader.Read() returns
    batch,            \* batch / records: rows read and not yet processed
    bi,               \* processBatch: index of the next record of the batch
    res,              \* processBatch: its ImportResult
    successCount, failedCount, totalProcessed,
    columnMapping,    \* di.columnMapping
    missingColumns,   \* the columns named by validateHeaders' error
    result,           \* what ImportData returned ("none": still running)
    \* database/sql
    txs,              \* status of every transaction begun, in order
    deferTx,          \* the transaction `defer tx.Rollback()` is bound to
    work,             \* candidate table as the open transaction sees it
    txRows,           \* rows executed successfully in the open transaction
    txFailed,         \* the open transaction is in the failed state
    store,            \* candidate table, committed (what others see)
    queries,          \* SELECTs issued to the store by the mappers' init
    \* history
    execLog,          \* every parameter row handed to stmt.Exec
    lastUpsert,       \* the last successful upsert: before / incoming / after
    lastAttempts,     \* Exec attempts made for the last executed row
    lastFailed,       \* the last executed row was counted as failed
    lastWaits,        \* the sleeps between those attempts, in milliseconds
    handled,          \* rows that went through the body of processBatch
    readErrors,       \* rows reader.Read() failed on
    storeAtCancel,    \* committed table at the moment of cancellation
    txRowsAtCancel,   \* txRows at the moment of cancellation
    cancelSeen,       \* a `case <-ctx.Done()` of the loader has been taken
    commitFault,      \* a Commit failed for a reason other than cancellation
    run,              \* 1: first run on the file, 2: second run
    storeAfterRun1,   \* committed table when the first run returned
    \* AnalyzeFailedImports
    apc,              \* where AnalyzeFailedImports stands
    launched,         \* loop index i of the fan-out loop
    workers,          \* worker goroutines: [start, end, state, result]
    wg,               \* the WaitGroup counter
    results,          \* the results channel (buffered, cap workerCount)
    closed,           \* number of times close(results) ran
    allFailedImports, \* collector: failed imports merged so far
    aTotalProcessed,  \* collector: totalProcessed
    merged,           \* collector: chunk start indexes merged so far
    \* one StateMapper as NewDataImporter creates it
    initOnce,         \* sm.initOnce: "new", "running" (body executing), "done"
    prepared,         \* sm.prepared
    loadedRows,       \* rows of the states table stored in sm.nameToID
    bodyRuns,         \* times the body handed to initOnce.Do has started
    callers,          \* goroutines in GetStateID: [pc, name, sync, view, res]
    \* the tables the course resolver writes
    courses,          \* courses: rows [corcode, name]
    historical,       \* historical_course_codes: rows, in insertion order
    uniqueIndex,      \* the table has the unique index ON CONFLICT names
    ccalls,           \* course resolutions: [op, code, year, inst, pc, err]
    \* state resolution applied to one input
    probe             \* [input, view, transformed, value, lookedUp, direct]

cfgVars == <<variant, headers, required, cfgBatchSize, cfgWorkerCount, file>>
loopVars == <<pc, pos, batch, bi, res>>
countVars == <<successCount, failedCount, totalProcessed>>
headerVars == <<columnMapping, missingColumns>>
txVars == <<txs, deferTx, work, txRows, txFailed, store>>
histVars == <<execLog, lastUpsert, lastAttempts, lastFailed, lastWaits, handled,
              readErrors>>
cancelVars == <<storeAtCancel, txRowsAtCancel, cancelSeen>>
runVars == <<run, storeAfterRun1>>
loaderVars == <<cancelled, faultsLeft, loopVars, countVars, headerVars, result,
                txVars, queries, histVars, cancelVars, commitFault, runVars>>
analyzerVars == <<apc, launched, workers, wg, results, closed,
                  allFailedImports, aTotalProcessed, merged>>
mapperVars == <<initOnce, prepared, loadedRows, bodyRuns, callers>>
courseVars == <<courses, historical, uniqueIndex, ccalls>>
probeVars == <<probe>>
resolverVars == <<mapperVars, courseVars, probeVars>>
vars == <<cfgVars, loaderVars, analyzerVars, resolverVars>>

NoUpsert == [done |-> FALSE, before |-> {}, incoming |-> {}, after |-> {}]
ZeroResult == [SuccessCount |-> 0, FailedCount |-> 0]

\* the state NewDataImporter + a fresh call of ImportData start from
LoaderStart ==
    /\ pc = "start" /\ pos = 1 /\ batch = <<>> /\ bi = 1 /\ res = ZeroResult
    /\ successCount = 0 /\ failedCount = 0 /\ totalProcessed = 0
    /\ columnMapping = <<>> /\ missingColumns = <<>>
    /\ result = "none"
    /\ txs = <<>> /\ deferTx = 0 /\ txRows = 0 /\ txFailed = FALSE
    /\ queries = 0
    /\ execLog = {} /\ lastUpsert = NoUpsert /\ lastAttempts = 0
    /\ lastFailed = FALSE /\ lastWaits = <<>>
    /\ handled = 0 /\ readErrors = 0
    /\ txRowsAtCancel = 0 /\ cancelSeen = FALSE /\ commitFault = FALSE

AnalyzerIdle ==
    /\ apc = "idle" /\ launched = 0 /\ workers = <<>> /\ wg = 0
    /\ results = <<>> /\ closed = 0
    /\ allFailedImports = <<>> /\ aTotalProcessed = 0 /\ merged = <<>>

\* NewStateMapper: an empty map, nothing loaded, no goroutine inside
MapperNew ==
    /\ initOnce = "new" /\ prepared = FALSE /\ loadedRows = 0 /\ bodyRuns = 0

CoursesStart ==
    /\ courses = CourseTable /\ historical = <<>>
    /\ uniqueIndex = TRUE /\ ccalls = <<>>

NoValue == [err |-> FALSE, value |-> Nil]
NoProbe == [input |-> <<>>, view |-> 0, transformed |-> FALSE, value |-> NoValue,
            lookedUp |-> FALSE, direct |-> NoLookup]

ResolverIdle ==
    /\ MapperNew
    /\ callers = <<>>
    /\ CoursesStart
    /\ probe = NoProbe

Init ==
    /\ variant \in {"A", "B"}
    /\ \E hc \in HeaderConfigs : headers = hc.headers /\ required = hc.required
    /\ cfgBatchSize \in (IF variant = "A" THEN {0} ELSE {0, 1})
    /\ cfgWorkerCount = 0
    /\ file \in Files
    /\ cancelled = FALSE /\ faultsLeft = MaxFaults
    /\ LoaderStart
    /\ work = {} /\ store = {} /\ storeAtCancel = {}
    /\ run = 1 /\ storeAfterRun1 = {}
    /\ AnalyzerIdle
    /\ ResolverIdle

(***************************************************************************)
(* ImportData.                                                             *)
(***************************************************************************)
\* variant A: `batchSize := 1000` (line 594), whatever the configuration
\* says; variant B: config.BatchSize, DefaultBatchSize when that is 0
\* (lines 1538-1541).  BatchRows stands for the 1000.
batchSize == IF variant = "A" THEN BatchRows
             ELSE IF cfgBatchSize = 0 THEN BatchRows ELSE cfgBatchSize

\* A return of ImportData: the deferred tx.Rollback() runs on the
\* transaction the defer statement was bound to (the first one begun); on
\* a transaction already committed or rolled back it does nothing.
ReturnWith(r, txsNow, workNow, storeNow) ==
    /\ result' = r
    /\ pc' = "done"
    /\ IF deferTx > 0 /\ txsNow[deferTx] = "open"
       THEN /\ txs' = [txsNow EXCEPT ![deferTx] = "rolledback"]
            /\ work' = IF deferTx = Len(txsNow) THEN storeNow ELSE workNow
       ELSE /\ txs' = txsNow
            /\ work' = workNow

\* Variant A reads the header row first (line 558); variant B first looks
\* at the context (lines 1494-1498).
Start ==
    /\ pc = "start"
    /\ IF variant = "B" /\ cancelled
       THEN /\ ReturnWith("cancelled", txs, work, store)
            /\ cancelSeen' = TRUE
            /\ UNCHANGED <<store, deferTx, txRows, txFailed>>
       ELSE /\ pc' = "initMappers"
            /\ UNCHANGED <<result, txVars, cancelSeen>>
    /\ UNCHANGED <<cfgVars, resolverVars, cancelled, faultsLeft, pos, batch, bi, res, countVars,
                   headerVars, queries, histVars, storeAtCancel, txRowsAtCancel,
                   commitFault, runVars, analyzerVars>>

\* initStateMapper, initCourseMapper, initInstitutionMapper: each runs one
\* SELECT over its table (lines 64, 191, 308).
InitMappers ==
    /\ pc = "initMappers"
    /\ queries' = queries + 3
    /\ pc' = "validate"
    /\ UNCHANGED <<cfgVars, resolverVars, cancelled, faultsLeft, pos, batch, bi, res, countVars,
                   headerVars, result, txVars, histVars, cancelVars, commitFault,
                   runVars, analyzerVars>>

\* validateHeaders (variant B reads the header row just before, line 1512).
Validate ==
    /\ pc = "validate"
    /\ \E answers \in [1..Len(required) -> 0..1] :
         LET vh == validateHeaders(variant, headers, required, answers) IN
         /\ columnMapping' = vh.columnMapping
         /\ missingColumns' = vh.missing
         /\ IF Len(vh.missing) > 0
            THEN /\ ReturnWith("headerError", txs, work, store)
                 /\ UNCHANGED <<store, deferTx, txRows, txFailed>>
            ELSE /\ pc' = "begin"
                 /\ UNCHANGED <<result, txVars>>
    /\ UNCHANGED <<cfgVars, resolverVars, cancelled, faultsLeft, pos, batch, bi, res, countVars,
                   queries, histVars, cancelVars, commitFault, runVars, analyzerVars>>

\* db.BeginTx(ctx, ...), `defer tx.Rollback()`, prepareInsertStatement.
\* BeginTx on a cancelled context returns the context's error.
Begin ==
    /\ pc = "begin"
    /\ IF cancelled
       THEN /\ ReturnWith("beginError", txs, work, store)
            /\ UNCHANGED <<store, deferTx, txRows, txFailed>>
       ELSE /\ txs' = Append(txs, "open")
            /\ deferTx' = Len(txs) + 1
            /\ work' = store
            /\ txRows' = 0
            /\ txFailed' = FALSE
            /\ pc' = "loop"
            /\ UNCHANGED <<result, store>>
    /\ UNCHANGED <<cfgVars, resolverVars, cancelled, faultsLeft, pos, batch, bi, res, countVars,
                   headerVars, queries, histVars, cancelVars, commitFault,
                   runVars, analyzerVars>>

\* One turn of the read loop: the context check, reader.Read(), append.
\* A read error is logged and the loop goes on; variant A counts it as a
\* failure (line 616), variant B does not (line 1562).
ReadRecord ==
    /\ pc = "loop"
    /\ IF cancelled
       THEN /\ ReturnWith("cancelled", txs, work, store)
            /\ cancelSeen' = TRUE
            /\ UNCHANGED <<store, deferTx, txRows, txFailed, pos, batch, bi, res,
                           failedCount, readErrors>>
       ELSE IF pos > Len(file)
       THEN /\ pc' = IF Len(batch) > 0 THEN "finalBatch" ELSE "finish"
            /\ bi' = 1
            /\ res' = ZeroResult
            /\ UNCHANGED <<result, txVars, pos, batch, failedCount, readErrors, cancelSeen>>
       ELSE IF ReadFails(file[pos], headers)
       THEN /\ pos' = pos + 1
            /\ failedCount' = IF variant = "A" THEN failedCount + 1 ELSE failedCount
            /\ readErrors' = readErrors + 1
            /\ UNCHANGED <<result, txVars, pc, batch, bi, res, cancelSeen>>
       ELSE /\ pos' = pos + 1
            /\ batch' = Append(batch, file[pos])
            /\ pc' = IF Len(batch) + 1 >= batchSize THEN "batch" ELSE "loop"
            /\ bi' = 1
            /\ res' = ZeroResult
            /\ UNCHANGED <<result, txVars, failedCount, readErrors, cancelSeen>>
    /\ UNCHANGED <<cfgVars, resolverVars, cancelled, faultsLeft, successCount, totalProcessed,
                   headerVars, queries, execLog, lastUpsert, lastAttempts, lastFailed,
                   lastWaits, handled, storeAtCancel, txRowsAtCancel, commitFault,
                   runVars, analyzerVars>>

\* Where the loop of processBatch goes after a record that failed (transform
\* error or Exec error): on to the next record (`continue`, line 706; fall
\* through, line 713; the next turn of the range loop, line 1611).
AfterRowFailure(i, n) == i + 1

\* Exec attempts for one row: variant A makes one, variant B up to
\* MaxRetries (line 1633).
ExecAttempts == IF variant = "A" THEN 1 ELSE MaxRetries

\* time.Sleep(time.Duration(i+1) * 100 * time.Millisecond) after the failed
\* attempt i = 0, 1, ... that is not the last: the sleeps before n retries
RECURSIVE RetryWaits(_)
RetryWaits(n) == IF n = 0 THEN <<>> ELSE Append(RetryWaits(n - 1), n * 100)

\* What the attempts for one row can come to.  [server |-> FALSE, n |-> k]:
\* the first k attempts fail with an error that leaves the transaction
\* usable (k = ExecAttempts: the row fails).  server: the store fails the
\* statement; PostgreSQL then puts the transaction in the failed state.
\* In a failed transaction and for a NULL key the store fails every attempt.
ExecOutcomes(rejected) ==
    LET srv == [server |-> TRUE, n |-> ExecAttempts] IN
    IF txFailed \/ rejected THEN {srv}
    ELSE IF faultsLeft > 0
         THEN {[server |-> FALSE, n |-> k] : k \in 0..ExecAttempts} \cup {srv}
    ELSE {[server |-> FALSE, n |-> 0]}

\* One turn of the loop of processBatch: the context check, transformRecord,
\* stmt.Exec (variant B: processRecord with its retry loop).
ProcessRow ==
    /\ pc \in {"batch", "finalBatch"}
    /\ bi <= Len(batch)
    /\ IF cancelled
       THEN \* processBatch returns what it has counted so far
            /\ bi' = Len(batch) + 1
            /\ cancelSeen' = TRUE
            /\ UNCHANGED <<res, work, txRows, txFailed, faultsLeft, histVars, courses>>
       ELSE LET tr == transformRecord(variant, headers, batch[bi]) IN
            \* transformCourse writes through d.db, outside the transaction
            /\ courses' = CoursesAfterCalls(courses,
                                            TransformCalls(variant, headers, batch[bi]), 1)
            /\ UNCHANGED cancelSeen
            /\ IF tr.err
               THEN /\ res' = [res EXCEPT !.FailedCount = @ + 1]
                    /\ bi' = AfterRowFailure(bi, Len(batch))
                    /\ handled' = handled + 1
                    /\ UNCHANGED <<work, txRows, txFailed, faultsLeft, execLog,
                                   lastUpsert, lastAttempts, lastFailed, lastWaits,
                                   readErrors>>
               ELSE LET incoming == ValuesToRow(tr.values)
                        rejected == StoreRejects(incoming)
                    IN  \E o \in ExecOutcomes(rejected) :
                          LET failed == o.n = ExecAttempts
                              injected == ~txFailed /\ ~rejected /\ o.n > 0
                          IN
                          /\ faultsLeft' = IF injected THEN faultsLeft - 1 ELSE faultsLeft
                          /\ txFailed' = o.server
                          /\ execLog' = execLog \cup {incoming}
                          /\ lastAttempts' = IF failed THEN ExecAttempts ELSE o.n + 1
                          /\ lastFailed' = failed
                          /\ lastWaits' = RetryWaits(IF failed THEN ExecAttempts - 1 ELSE o.n)
                          /\ handled' = handled + 1
                          /\ IF failed
                             THEN /\ res' = [res EXCEPT !.FailedCount = @ + 1]
                                  /\ bi' = AfterRowFailure(bi, Len(batch))
                                  /\ UNCHANGED <<work, txRows, lastUpsert>>
                             ELSE /\ res' = [res EXCEPT !.SuccessCount = @ + 1]
                                  /\ bi' = bi + 1
                                  /\ work' = ExecUpsert(variant, work, incoming)
                                  /\ txRows' = txRows + 1
                                  /\ lastUpsert' =
                                       [done |-> TRUE,
                                        before |-> {r \in work : r.regnumber = incoming.regnumber},
                                        incoming |-> {incoming},
                                        after |-> {r \in ExecUpsert(variant, work, incoming) :
                                                     r.regnumber = incoming.regnumber}]
                          /\ UNCHANGED readErrors
    /\ UNCHANGED <<cfgVars, mapperVars, historical, uniqueIndex, ccalls, probeVars, cancelled, pc, pos, batch, countVars,
                   headerVars, result, txs, deferTx, store, queries, storeAtCancel,
                   txRowsAtCancel, commitFault, runVars, analyzerVars>>

\* tx.Commit().  database/sql first looks at the transaction's context and
\* returns its error when it is done; lib/pq rolls a failed transaction back
\* and returns ErrInFailedTransaction; `fault` is a commit the store fails.
CommitFailsIgnoringCtx(fault) == txFailed \/ fault

CommitFails(fault) == cancelled \/ txFailed \/ fault

FaultChoices == IF faultsLeft > 0 /\ ~cancelled /\ ~txFailed
                THEN {FALSE, TRUE} ELSE {FALSE}

\* `return fmt.Errorf("error committing ...")` (lines 640, 671, 1587).  A
\* Commit refused for the context leaves the transaction to database/sql;
\* any other failed Commit has ended it.
CommitAbort(fault) ==
    LET closedTxs == IF cancelled THEN txs
                     ELSE [txs EXCEPT ![Len(txs)] = "rolledback"]
        workNow == IF cancelled THEN work ELSE store
    IN  /\ ReturnWith("commitError", closedTxs, workNow, store)
        /\ commitFault' = fault
        /\ faultsLeft' = IF fault THEN faultsLeft - 1 ELSE faultsLeft

\* After processBatch returned for a full batch (lines 624-655 and
\* 1569-1573).  Variant A commits, begins the next transaction and prepares
\* the statement on it; the deferred Rollback stays bound to the first one.
AfterBatch ==
    /\ pc = "batch"
    /\ bi > Len(batch)
    /\ successCount' = successCount + res.SuccessCount
    /\ failedCount' = failedCount + res.FailedCount
    /\ IF variant = "A"
       THEN /\ totalProcessed' = totalProcessed + Len(batch)
            /\ \E fault \in FaultChoices :
                 IF CommitFails(fault)
                 THEN /\ CommitAbort(fault)
                      /\ UNCHANGED <<store, deferTx, txRows, txFailed, batch>>
                 ELSE /\ store' = work
                      /\ txs' = Append([txs EXCEPT ![Len(txs)] = "committed"], "open")
                      /\ txRows' = 0
                      /\ txFailed' = FALSE
                      /\ batch' = <<>>
                      /\ pc' = "loop"
                      /\ UNCHANGED <<result, work, deferTx, commitFault, faultsLeft>>
       ELSE /\ batch' = <<>>
            /\ pc' = "loop"
            /\ UNCHANGED <<totalProcessed, result, txVars, commitFault, faultsLeft>>
    /\ UNCHANGED <<cfgVars, resolverVars, cancelled, pos, bi, res, headerVars, queries, histVars,
                   cancelVars, runVars, analyzerVars>>

\* After processBatch returned for the rows left at EOF (lines 660-673
\* and 1578-1583).  Variant A commits them; no transaction is begun after.
AfterFinalBatch ==
    /\ pc = "finalBatch"
    /\ bi > Len(batch)
    /\ successCount' = successCount + res.SuccessCount
    /\ failedCount' = failedCount + res.FailedCount
    /\ IF variant = "A"
       THEN /\ totalProcessed' = totalProcessed + Len(batch)
            /\ \E fault \in FaultChoices :
                 IF CommitFails(fault)
                 THEN /\ CommitAbort(fault)
                      /\ UNCHANGED <<store, deferTx, txRows, txFailed>>
                 ELSE /\ store' = work
                      /\ txs' = [txs EXCEPT ![Len(txs)] = "committed"]
                      /\ pc' = "finish"
                      /\ UNCHANGED <<result, work, deferTx, txRows, txFailed,
                                     commitFault, faultsLeft>>
       ELSE /\ pc' = "finish"
            /\ UNCHANGED <<totalProcessed, result, txVars, commitFault, faultsLeft>>
    /\ UNCHANGED <<cfgVars, resolverVars, cancelled, pos, batch, bi, res, headerVars, queries,
                   histVars, cancelVars, runVars, analyzerVars>>

\* The end of ImportData: variant B commits its one transaction (line
\* 1586); both print the summary and return "import completed with N
\* failures" when a row failed, nil otherwise.
Finish ==
    /\ pc = "finish"
    /\ LET outcome == IF failedCount > 0 THEN "failures" ELSE "ok" IN
       IF variant = "A"
       THEN /\ ReturnWith(outcome, txs, work, store)
            /\ UNCHANGED <<store, commitFault, faultsLeft>>
       ELSE \E fault \in FaultChoices :
              IF CommitFails(fault)
              THEN /\ CommitAbort(fault)
                   /\ UNCHANGED store
              ELSE /\ store' = work
                   /\ ReturnWith(outcome, [txs EXCEPT ![Len(txs)] = "committed"], work, work)
                   /\ UNCHANGED <<commitFault, faultsLeft>>
    /\ UNCHANGED <<cfgVars, resolverVars, cancelled, pos, batch, bi, res, countVars, headerVars,
                   deferTx, txRows, txFailed, queries, histVars, cancelVars, runVars,
                   analyzerVars>>

\* The cancellation signal fires (the caller's context is cancelled or
\* its deadline passes) while ImportData runs.
Cancel ==
    /\ ~cancelled
    /\ result = "none"
    /\ cancelled' = TRUE
    /\ storeAtCancel' = store
    /\ txRowsAtCancel' = IF Len(txs) > 0 /\ txs[Len(txs)] = "open" THEN txRows ELSE 0
    /\ UNCHANGED <<cfgVars, resolverVars, cancelSeen, faultsLeft, loopVars, countVars, headerVars, result,
                   txVars, queries, histVars, commitFault, runVars, analyzerVars>>

\* database/sql rolls a transaction begun with BeginTx(ctx, ...) back once
\* ctx is done.
TxAwaitDone ==
    /\ cancelled
    /\ Len(txs) > 0
    /\ txs[Len(txs)] = "open"
    /\ txs' = [txs EXCEPT ![Len(txs)] = "rolledback"]
    /\ work' = store
    /\ UNCHANGED <<cfgVars, resolverVars, cancelled, faultsLeft, loopVars, countVars, headerVars,
                   result, deferTx, txRows, txFailed, store, queries, histVars,
                   cancelVars, commitFault, runVars, analyzerVars>>

Next ==
    \/ Start
    \/ InitMappers
    \/ Validate
    \/ Begin
    \/ ReadRecord
    \/ ProcessRow
    \/ AfterBatch
    \/ AfterFinalBatch
    \/ Finish
    \/ Cancel
    \/ TxAwaitDone

Spec == Init /\ [][Next]_vars

(***************************************************************************)
(* ImportData on header rows that need the fuzzy reconciliation: one run   *)
(* on a short file, with the header rows of HeaderConfigs and with rows    *)
(* whose names are close to a required column.                             *)
(***************************************************************************)
FuzzyHeaderConfigs ==
    HeaderConfigs \cup
    { [headers |-> HeadersPlural, required |-> <<H_RegNumber>>],
      [headers |-> HeadersClose,  required |-> <<H_RegNumber>>] }

ShortFiles == { <<>>, <<Row1>>, <<Row5>>, <<Row1, Row5>>, <<Row3, Row1>> }

HeaderInit ==
    /\ variant \in {"A", "B"}
    /\ \E hc \in FuzzyHeaderConfigs : headers = hc.headers /\ required = hc.required
    /\ cfgBatchSize \in (IF variant = "A" THEN {0} ELSE {0, 1})
    /\ cfgWorkerCount = 0
    /\ file \in ShortFiles
    /\ cancelled = FALSE /\ faultsLeft = MaxFaults
    /\ LoaderStart
    /\ work = {} /\ store = {} /\ storeAtCancel = {}
    /\ run = 1 /\ storeAfterRun1 = {}
    /\ AnalyzerIdle
    /\ ResolverIdle

HeaderSpec == HeaderInit /\ [][Next]_vars

(***************************************************************************)
(* Two runs of ImportData on the same file, the second against the table   *)
(* the first one left; no cancellation and no fault of the environment.    *)
(***************************************************************************)
\* a fresh DataImporter and a fresh call of ImportData, once the first
\* call has returned from importing the file (a first call that the
\* operator's answers stopped at the header row imported nothing)
StartSecondRun ==
    /\ run = 1
    /\ result \notin {"none", "headerError"}
    /\ run' = 2
    /\ storeAfterRun1' = store
    /\ pc' = "start" /\ pos' = 1 /\ batch' = <<>> /\ bi' = 1 /\ res' = ZeroResult
    /\ successCount' = 0 /\ failedCount' = 0 /\ totalProcessed' = 0
    /\ columnMapping' = <<>> /\ missingColumns' = <<>>
    /\ result' = "none"
    /\ txs' = <<>> /\ deferTx' = 0 /\ txRows' = 0 /\ txFailed' = FALSE
    /\ work' = store
    /\ queries' = 0
    /\ execLog' = {} /\ lastUpsert' = NoUpsert /\ lastAttempts' = 0
    /\ lastFailed' = FALSE /\ lastWaits' = <<>>
    /\ handled' = 0 /\ readErrors' = 0
    /\ UNCHANGED <<cfgVars, resolverVars, cancelled, faultsLeft, store, cancelVars, commitFault,
                   analyzerVars>>

RerunInit ==
    /\ variant \in {"A", "B"}
    /\ \E hc \in HeaderConfigs : headers = hc.headers /\ required = hc.required
    /\ cfgBatchSize \in (IF variant = "A" THEN {0} ELSE {0, 1})
    /\ cfgWorkerCount = 0
    /\ file \in Files
    /\ cancelled = FALSE /\ faultsLeft = 0
    /\ LoaderStart
    /\ work = {} /\ store = {} /\ storeAtCancel = {}
    /\ run = 1 /\ storeAfterRun1 = {}
    /\ AnalyzerIdle
    /\ ResolverIdle

RerunNext ==
    \/ Start
    \/ InitMappers
    \/ Validate
    \/ Begin
    \/ ReadRecord
    \/ ProcessRow
    \/ AfterBatch
    \/ AfterFinalBatch
    \/ Finish
    \/ StartSecondRun

RerunSpec == RerunInit /\ [][RerunNext]_vars

(***************************************************************************)
(* AnalyzeFailedImports (lines 1726-1858) and processChunk (1683-1724).    *)
(* Rows are numbered from 0 as in allRecords.                              *)
(***************************************************************************)
\* workerCount := d.config.WorkerCount, DefaultWorkerCount when <= 0
workerCount == IF cfgWorkerCount <= 0 THEN DefaultWorkerCount ELSE cfgWorkerCount

recordsPerWorkerFloor(n, w) == n \div w

\* (len(allRecords) + workerCount - 1) / workerCount
recordsPerWorker(n, w) == (n + w - 1) \div w

\* processChunk on allRecords[start:end): every record is counted, the
\* records transformRecord fails on are listed with the error
processChunk(start, end) ==
    LET idx == [k \in 1..(end - start) |-> start + k]
        bad == SelectSeq(idx, LAMBDA k : transformRecord("B", headers, file[k]).err)
    IN  [ChunkIndex |-> start,
         ProcessedRows |-> end - start,
         FailedImports |-> [k \in 1..Len(bad) |->
             [RowData |-> file[bad[k]],
              FailReason |-> transformRecord("B", headers, file[bad[k]]).column]]]

NoChunk == [ChunkIndex |-> 0, ProcessedRows |-> 0, FailedImports |-> <<>>]

\* The header row is read, then reader.ReadAll(): one record with a wrong
\* number of fields fails the whole analysis.
AnalyzeStart ==
    /\ apc = "idle"
    /\ apc' = IF \E i \in 1..Len(file) : ReadFails(file[i], headers)
              THEN "readError" ELSE "launch"
    /\ UNCHANGED <<cfgVars, resolverVars, loaderVars, launched, workers, wg, results, closed,
                   allFailedImports, aTotalProcessed, merged>>

\* One turn of the fan-out loop: wg.Add(1) and `go func(chunk, start)`;
\* the loop ends at i = workerCount or at the first start beyond the rows,
\* and the goroutine that closes the channel is started.
Launch ==
    /\ apc = "launch"
    /\ LET per == recordsPerWorker(Len(file), workerCount)
           start == launched * per
           end == IF start + per > Len(file) THEN Len(file) ELSE start + per
       IN  IF launched < workerCount /\ start < Len(file)
           THEN /\ wg' = wg + 1
                /\ workers' = Append(workers, [start |-> start, end |-> end,
                                               state |-> "running", result |-> NoChunk])
                /\ launched' = launched + 1
                /\ UNCHANGED apc
           ELSE /\ apc' = "collect"
                /\ UNCHANGED <<wg, workers, launched>>
    /\ UNCHANGED <<cfgVars, resolverVars, loaderVars, results, closed, allFailedImports,
                   aTotalProcessed, merged>>

\* what transformRecord does to the store and to the state mapper while
\* processChunk walks allRecords[start:end)
RECURSIVE ChunkCourses(_, _, _)
ChunkCourses(table, k, end) ==
    IF k > end THEN table
    ELSE ChunkCourses(CoursesAfterCalls(table, TransformCalls("B", headers, file[k]), 1),
                      k + 1, end)

ChunkCallsGetStateID(start, end) ==
    \E k \in (start + 1)..end : CallsGetStateID(TransformCalls("B", headers, file[k]))

\* a worker: result := d.processChunk(chunk, headers, startIndex).  The
\* first GetStateID on the mapper of NewDataImporter runs init.
WorkerProcess(w) ==
    /\ workers[w].state = "running"
    /\ workers' = [workers EXCEPT ![w].state = "sending",
                                  ![w].result = processChunk(workers[w].start, workers[w].end)]
    /\ courses' = ChunkCourses(courses, workers[w].start + 1, workers[w].end)
    /\ IF ChunkCallsGetStateID(workers[w].start, workers[w].end) /\ initOnce = "new"
       THEN /\ initOnce' = "done"
            /\ bodyRuns' = bodyRuns + 1
            /\ loadedRows' = Len(StateTable)
            /\ prepared' = TRUE
       ELSE UNCHANGED <<initOnce, bodyRuns, loadedRows, prepared>>
    /\ UNCHANGED <<cfgVars, callers, historical, uniqueIndex, ccalls, probeVars, loaderVars, apc, launched, wg, results,
                   closed, allFailedImports, aTotalProcessed, merged>>

\* a worker without the deferred wg.Done()
WorkerSendNoDone(w) ==
    /\ workers[w].state = "sending"
    /\ Len(results) < workerCount
    /\ closed = 0
    /\ results' = Append(results, workers[w].result)
    /\ workers' = [workers EXCEPT ![w].state = "done"]
    /\ UNCHANGED <<cfgVars, resolverVars, loaderVars, apc, launched, wg, closed,
                   allFailedImports, aTotalProcessed, merged>>

\* a worker: `results <- result` on the channel of capacity workerCount,
\* then the deferred wg.Done()
WorkerSend(w) ==
    /\ workers[w].state = "sending"
    /\ Len(results) < workerCount
    /\ closed = 0
    /\ results' = Append(results, workers[w].result)
    /\ workers' = [workers EXCEPT ![w].state = "done"]
    /\ wg' = wg - 1
    /\ UNCHANGED <<cfgVars, resolverVars, loaderVars, apc, launched, closed, allFailedImports,
                   aTotalProcessed, merged>>

\* a closing goroutine that does not wait for the workers
CloseResultsNoWait ==
    /\ apc = "collect"
    /\ closed = 0
    /\ closed' = 1
    /\ UNCHANGED <<cfgVars, resolverVars, loaderVars, apc, launched, workers, wg, results,
                   allFailedImports, aTotalProcessed, merged>>

\* the closing goroutine: wg.Wait(); close(results)
CloseResults ==
    /\ apc = "collect"
    /\ closed = 0
    /\ wg = 0
    /\ closed' = 1
    /\ UNCHANGED <<cfgVars, resolverVars, loaderVars, apc, launched, workers, wg, results,
                   allFailedImports, aTotalProcessed, merged>>

\* the collector: one turn of `for result := range results`
Collect ==
    /\ apc = "collect"
    /\ Len(results) > 0
    /\ allFailedImports' = allFailedImports \o Head(results).FailedImports
    /\ aTotalProcessed' = aTotalProcessed + Head(results).ProcessedRows
    /\ merged' = Append(merged, [start |-> Head(results).ChunkIndex,
                                 rows |-> Head(results).ProcessedRows])
    /\ results' = Tail(results)
    /\ UNCHANGED <<cfgVars, resolverVars, loaderVars, apc, launched, workers, wg, closed>>

\* the range loop ends on the closed, drained channel; the report is
\* printed and allFailedImports returned
AnalyzeFinish ==
    /\ apc = "collect"
    /\ Len(results) = 0
    /\ closed > 0
    /\ apc' = "done"
    /\ UNCHANGED <<cfgVars, resolverVars, loaderVars, launched, workers, wg, results, closed,
                   allFailedImports, aTotalProcessed, merged>>

AnalyzerInit ==
    /\ variant = "B"
    /\ \/ /\ \E hc \in HeaderConfigs : headers = hc.headers /\ required = hc.required
          /\ file \in Files
       \/ /\ headers = HeadersResolved /\ required = <<>>
          /\ file \in ResolvedFiles
    /\ cfgBatchSize = 0
    /\ cfgWorkerCount \in 0..MaxWorkers
    /\ cancelled = FALSE /\ faultsLeft = 0
    /\ LoaderStart
    /\ work = {} /\ store = {} /\ storeAtCancel = {}
    /\ run = 1 /\ storeAfterRun1 = {}
    /\ AnalyzerIdle
    /\ ResolverIdle

AnalyzerNext ==
    \/ AnalyzeStart
    \/ Launch
    \/ \E w \in 1..Len(workers) : WorkerProcess(w)
    \/ \E w \in 1..Len(workers) : WorkerSend(w)
    \/ CloseResults
    \/ Collect
    \/ AnalyzeFinish

AnalyzerSpec == AnalyzerInit /\ [][AnalyzerNext]_vars

\* The analysis under the Go scheduler: a goroutine that can run is run
\* in the end, so no step of the main goroutine, of a worker or of the
\* closing goroutine stays enabled for ever without being taken.  The
\* files are the first n rows of one list, n = 0..MaxRows, and one file
\* that ReadAll fails on.
AnalyzedRows == <<Row1, Row5, Row4, Row2, Row3>>

AnalyzerFairInit ==
    /\ variant = "B"
    /\ headers = HeadersCamel /\ required = <<>>
    /\ file \in {SubSeq(AnalyzedRows, 1, n) : n \in 0..MaxRows} \cup {<<Row1, RowShort>>}
    /\ cfgBatchSize = 0
    /\ cfgWorkerCount \in 0..MaxWorkers
    /\ cancelled = FALSE /\ faultsLeft = 0
    /\ LoaderStart
    /\ work = {} /\ store = {} /\ storeAtCancel = {}
    /\ run = 1 /\ storeAfterRun1 = {}
    /\ AnalyzerIdle
    /\ ResolverIdle

\* processChunk can be left exactly while some worker is in it: this is
\* ENABLED <<\E w : WorkerProcess(w)>>_vars, whose only guard is the
\* worker's state.
SomeWorkerRunning == \E w \in 1..Len(workers) : workers[w].state = "running"

\* The third conjunct WF_vars(\E w : WorkerProcess(w)) is written out as
\* []<>~ENABLED \/ []<><<step>>, with SomeWorkerRunning for the ENABLED.
AnalyzerFairSpec ==
    /\ AnalyzerFairInit
    /\ [][AnalyzerNext]_vars
    /\ WF_vars(AnalyzeStart)
    /\ WF_vars(Launch)
    /\ \/ []<>(~SomeWorkerRunning)
       \/ []<><<\E w \in 1..Len(workers) : WorkerProcess(w)>>_vars
    /\ WF_vars(\E w \in 1..Len(workers) : WorkerSend(w))
    /\ WF_vars(CloseResults)
    /\ WF_vars(Collect)
    /\ WF_vars(AnalyzeFinish)

(***************************************************************************)
(* One StateMapper shared by concurrent callers of GetStateID (lines       *)
(* 1044-1154; CourseMapper and InstitutionMapper load the same way).       *)
(* init() runs its body under sync.Once: the first caller executes it, a   *)
(* caller arriving while it executes waits in Do, a later one returns at   *)
(* once.  `if !sm.prepared` is a plain read, under no lock: a caller that  *)
(* reads true goes on to the map without passing through the Once, so no   *)
(* synchronisation orders the writes of the loading goroutine before its   *)
(* reads, and the map it reads is the loaded one or the one the            *)
(* constructor made.                                                       *)
(***************************************************************************)
S_AKWA_DASH_IBOM == <<"A","K","W","A","-","I","B","O","M">>
S_NOWHERE == <<"N","O","W","H","E","R","E">>

\* the names the callers resolve
LookupNames == {S_LAGOS, S_AKWA_DASH_IBOM, S_NOWHERE}

\* GetStateID, line 1078: the read of sm.prepared.  The value read is the
\* current one, or the older false.
CheckPrepared(c) ==
    /\ callers[c].pc = "call"
    /\ \E seen \in (IF prepared THEN {TRUE, FALSE} ELSE {FALSE}) :
         callers' = [callers EXCEPT ![c].pc = IF seen THEN "lookup" ELSE "init"]
    /\ UNCHANGED <<cfgVars, loaderVars, analyzerVars, courseVars, probeVars, initOnce, prepared, loadedRows,
                   bodyRuns>>

\* sm.initOnce.Do: the first caller starts the body, which replaces the map
\* and queries the table; a caller that finds the Once done returns
OnceDo(c) ==
    /\ callers[c].pc = "init"
    /\ initOnce # "running"
    /\ IF initOnce = "new"
       THEN /\ initOnce' = "running"
            /\ bodyRuns' = bodyRuns + 1
            /\ loadedRows' = 0
            /\ callers' = [callers EXCEPT ![c].pc = "loading"]
       ELSE /\ callers' = [callers EXCEPT ![c].pc = "lookup", ![c].sync = TRUE]
            /\ UNCHANGED <<initOnce, bodyRuns, loadedRows>>
    /\ UNCHANGED <<cfgVars, loaderVars, analyzerVars, courseVars, probeVars, prepared>>

\* one turn of `for rows.Next()`: sm.nameToID[name] = id
LoadRow(c) ==
    /\ callers[c].pc = "loading"
    /\ loadedRows < Len(StateTable)
    /\ loadedRows' = loadedRows + 1
    /\ UNCHANGED <<cfgVars, loaderVars, analyzerVars, courseVars, probeVars, initOnce, prepared, bodyRuns,
                   callers>>

\* sm.prepared = true, the last statement of the body
SetPrepared(c) ==
    /\ callers[c].pc = "loading"
    /\ loadedRows = Len(StateTable)
    /\ prepared' = TRUE
    /\ callers' = [callers EXCEPT ![c].pc = "loaded"]
    /\ UNCHANGED <<cfgVars, loaderVars, analyzerVars, courseVars, probeVars, initOnce, loadedRows, bodyRuns>>

\* the body returns: Do marks the Once done and releases the waiters
BodyReturn(c) ==
    /\ callers[c].pc = "loaded"
    /\ initOnce' = "done"
    /\ callers' = [callers EXCEPT ![c].pc = "lookup", ![c].sync = TRUE]
    /\ UNCHANGED <<cfgVars, loaderVars, analyzerVars, courseVars, probeVars, prepared, loadedRows, bodyRuns>>

\* The maps a caller may read at its lookup: what the loading goroutine
\* stored, when the Once orders the load before the read; otherwise that
\* or the empty map of NewStateMapper.
MapViews(sync) == IF sync THEN {loadedRows} ELSE {0, loadedRows}

\* the rest of GetStateID: special cases, the map, the fuzzy SELECT
Lookup(c) ==
    /\ callers[c].pc = "lookup"
    /\ \E view \in MapViews(callers[c].sync) :
         callers' = [callers EXCEPT
                       ![c].pc = "done",
                       ![c].view = view,
                       ![c].res = GetStateID(NameToIDAfter(view), StateTable,
                                             callers[c].name)]
    /\ UNCHANGED <<cfgVars, loaderVars, analyzerVars, courseVars, probeVars, initOnce, prepared, loadedRows,
                   bodyRuns>>

ResolverInit ==
    /\ variant = "B"
    /\ headers = HeadersCamel /\ required = <<>>
    /\ cfgBatchSize = 0 /\ cfgWorkerCount = 0
    /\ file = <<>>
    /\ cancelled = FALSE /\ faultsLeft = 0
    /\ LoaderStart
    /\ work = {} /\ store = {} /\ storeAtCancel = {}
    /\ run = 1 /\ storeAfterRun1 = {}
    /\ AnalyzerIdle
    /\ MapperNew
    /\ CoursesStart
    /\ probe = NoProbe
    /\ callers \in [1..MaxCallers ->
                      {[pc |-> "call", name |-> n, sync |-> FALSE, view |-> 0,
                        res |-> NoLookup] : n \in LookupNames}]

ResolverNext ==
    \/ \E c \in 1..Len(callers) : CheckPrepared(c)
    \/ \E c \in 1..Len(callers) : OnceDo(c)
    \/ \E c \in 1..Len(callers) : LoadRow(c)
    \/ \E c \in 1..Len(callers) : SetPrepared(c)
    \/ \E c \in 1..Len(callers) : BodyReturn(c)
    \/ \E c \in 1..Len(callers) : Lookup(c)

ResolverSpec == ResolverInit /\ [][ResolverNext]_vars

(***************************************************************************)
(* The same callers when the load can fail.  db.Query returns an error      *)
(* (lines 64-68 / 1051-1055) or rows.Scan does (lines 74-77 / 1061-1064):   *)
(* the body stores it in the `err` of the init() call that runs the body    *)
(* and returns before `sm.prepared = true`; Do marks the Once done all the  *)
(* same.  That init() returns the error and GetStateID wraps it (lines      *)
(* 92-94 / 1079-1081).  The rows stored before the failure stay in the map. *)
(***************************************************************************)
\* the body gives up with the Once still to be run again
LoadFailResetsOnce(c) ==
    /\ callers[c].pc = "loading"
    /\ loadedRows < Len(StateTable)
    /\ initOnce' = "new"
    /\ callers' = [callers EXCEPT ![c].pc = "initError"]
    /\ UNCHANGED <<cfgVars, loaderVars, analyzerVars, courseVars, probeVars, prepared, loadedRows, bodyRuns>>

\* the query fails (no row stored yet) or the scan of the next row fails
LoadFail(c) ==
    /\ callers[c].pc = "loading"
    /\ loadedRows < Len(StateTable)
    /\ initOnce' = "done"
    /\ callers' = [callers EXCEPT ![c].pc = "initError"]
    /\ UNCHANGED <<cfgVars, loaderVars, analyzerVars, courseVars, probeVars, prepared, loadedRows, bodyRuns>>

ResolverFaultNext ==
    \/ ResolverNext
    \/ \E c \in 1..Len(callers) : LoadFail(c)

ResolverFaultSpec == ResolverInit /\ [][ResolverFaultNext]_vars

(***************************************************************************)
(* transformState and GetStateID as functions of their input: the input is *)
(* a spelling of a name, the map is one a caller can read (empty or        *)
(* loaded), and each function is applied once.                             *)
(***************************************************************************)
\* a name with its space written as a dash
Dashed(name) == ReplaceChar(name, " ", "-")

\* the rows of the table whose name contains a space
SpacedStates == { i \in 1..Len(StateTable) : \E k \in 1..Len(StateTable[i].st_name) :
                                                StateTable[i].st_name[k] = " " }

S_ABUJA == <<"A","B","U","J","A">>
S_UK == <<"U","K">>
S_LAGOZ == <<"L","A","G","O","Z">>
S_OLD_LAGOS == <<"O","L","D"," ","L","A","G","O","S">>
S_ZZ == <<"Z","Z">>

\* names that are no row of the table, no alias of one, and more than two
\* edits away from every row, as a whole and word by word
UnknownNames == {S_NOWHERE, S_ZZ, S_UK}

BaseSpellings ==
    {StateTable[i].st_name : i \in 1..Len(StateTable)}
    \cup {Dashed(StateTable[i].st_name) : i \in SpacedStates}
    \cup UnknownNames
    \cup {S_ABUJA, S_LAGOZ, S_OLD_LAGOS}

Spaces(n) == [i \in 1..n |-> " "]

\* every base spelling in upper and in lower case, with up to MaxPad
\* spaces before and after, and the empty cell
StateInputs ==
    { Spaces(l) \o c \o Spaces(r) :
        l \in 0..MaxPad, r \in 0..MaxPad,
        c \in BaseSpellings \cup {ToLower(b) : b \in BaseSpellings} }
    \cup {<<>>}

\* mapping.TransformFunc(record[idx]) for the State column
TransformStateCall ==
    /\ ~probe.transformed
    /\ probe' = [probe EXCEPT
                   !.transformed = TRUE,
                   !.value = transformState(NameToIDAfter(probe.view), StateTable,
                                            probe.input)]
    /\ UNCHANGED <<cfgVars, loaderVars, analyzerVars, mapperVars, courseVars>>

\* sm.GetStateID(input), past the prepared check
GetStateIDCall ==
    /\ ~probe.lookedUp
    /\ probe' = [probe EXCEPT
                   !.lookedUp = TRUE,
                   !.direct = GetStateID(NameToIDAfter(probe.view), StateTable,
                                         probe.input)]
    /\ UNCHANGED <<cfgVars, loaderVars, analyzerVars, mapperVars, courseVars>>

StateInit ==
    /\ variant = "B"
    /\ headers = HeadersCamel /\ required = <<>>
    /\ cfgBatchSize = 0 /\ cfgWorkerCount = 0
    /\ file = <<>>
    /\ cancelled = FALSE /\ faultsLeft = 0
    /\ LoaderStart
    /\ work = {} /\ store = {} /\ storeAtCancel = {}
    /\ run = 1 /\ storeAfterRun1 = {}
    /\ AnalyzerIdle
    /\ MapperNew
    /\ callers = <<>>
    /\ CoursesStart
    /\ \E x \in StateInputs, v \in {0, Len(StateTable)} :
         probe = [NoProbe EXCEPT !.input = x, !.view = v]

StateNext == TransformStateCall \/ GetStateIDCall

StateSpec == StateInit /\ [][StateNext]_vars

(***************************************************************************)
(* Course resolution (lines 1225-1259, 1985-2026): goroutines calling      *)
(* ValidateCourseCode on one CourseMapper, and transformCourse as the      *)
(* transform pipeline calls it.  The schema (src/unnamed/part_017) does    *)
(* not say whether historical_course_codes has a unique index on (year,    *)
(* old_course_code, institution_id); PostgreSQL rejects an INSERT whose ON *)
(* CONFLICT names columns with no such index.                              *)
(***************************************************************************)
\* the INSERT without its ON CONFLICT clause
storeHistoricalPlain(table, unique, row) == Append(table, row)

\* storeHistoricalCode: INSERT ... ON CONFLICT (year, old_course_code,
\* institution_id) DO NOTHING; the table after it
storeHistoricalCode(table, unique, row) ==
    IF ~unique THEN table
    ELSE IF \E i \in 1..Len(table) : table[i] = row THEN table
    ELSE Append(table, row)

\* cm.courseCodes once init has loaded it
courseCodes == { r.corcode : r \in CourseTable }

C_12 == <<"1","2">>
CourseInputs == {C_100202H, C_100203H, C_12}
Years == {2023, 2024}

CourseCallKinds ==
    { [op |-> "validate", code |-> c, year |-> y, inst |-> 1, pc |-> "call", err |-> "none"] :
        c \in CourseInputs, y \in Years }
    \cup
    { [op |-> "transform", code |-> c, year |-> 0, inst |-> 0, pc |-> "call", err |-> "none"] :
        c \in CourseInputs }

\* ValidateCourseCode up to the lookup in cm.courseCodes
ValidateLookup(c) ==
    /\ ccalls[c].op = "validate" /\ ccalls[c].pc = "call"
    /\ ccalls' = [ccalls EXCEPT ![c].pc = IF ccalls[c].code \in courseCodes
                                          THEN "done" ELSE "store"]
    /\ UNCHANGED <<cfgVars, loaderVars, analyzerVars, mapperVars, probeVars, courses,
                   historical, uniqueIndex>>

\* ValidateCourseCode from storeHistoricalCode on: the error of the INSERT
\* is logged, a HistoricalCourseError is returned
StoreHistorical(c) ==
    /\ ccalls[c].op = "validate" /\ ccalls[c].pc = "store"
    /\ historical' = storeHistoricalCode(historical, uniqueIndex,
                                         [year |-> ccalls[c].year,
                                          old_course_code |-> ccalls[c].code,
                                          institution_id |-> ccalls[c].inst])
    /\ ccalls' = [ccalls EXCEPT ![c].pc = "done", ![c].err = "historical"]
    /\ UNCHANGED <<cfgVars, loaderVars, analyzerVars, mapperVars, probeVars, courses,
                   uniqueIndex>>

\* transformCourse on the CourseCode cell of a row
TransformCourseCall(c) ==
    /\ ccalls[c].op = "transform" /\ ccalls[c].pc = "call"
    /\ courses' = CoursesAfter(courses, ccalls[c].code)
    /\ ccalls' = [ccalls EXCEPT ![c].pc = "done",
                                ![c].err = IF transformCourse(ccalls[c].code).err
                                           THEN "format" ELSE "none"]
    /\ UNCHANGED <<cfgVars, loaderVars, analyzerVars, mapperVars, probeVars, historical,
                   uniqueIndex>>

CourseInit ==
    /\ variant = "B"
    /\ headers = HeadersCamel /\ required = <<>>
    /\ cfgBatchSize = 0 /\ cfgWorkerCount = 0
    /\ file = <<>>
    /\ cancelled = FALSE /\ faultsLeft = 0
    /\ LoaderStart
    /\ work = {} /\ store = {} /\ storeAtCancel = {}
    /\ run = 1 /\ storeAfterRun1 = {}
    /\ AnalyzerIdle
    /\ MapperNew
    /\ callers = <<>>
    /\ probe = NoProbe
    /\ courses = CourseTable /\ historical = <<>>
    /\ uniqueIndex \in BOOLEAN
    /\ ccalls \in [1..MaxCallers -> CourseCallKinds]

CourseNext ==
    \/ \E c \in 1..Len(ccalls) : ValidateLookup(c)
    \/ \E c \in 1..Len(ccalls) : StoreHistorical(c)
    \/ \E c \in 1..Len(ccalls) : TransformCourseCall(c)

CourseSpec == CourseInit /\ [][CourseNext]_vars

(***************************************************************************)
(* The courses table under UpsertCourse (lines 1201-1223, called by        *)
(* ImportCourses, 2528-2549, for every line of a course file) and under    *)
(* the placeholder INSERT of transformCourse (2013-2023).  Each call is    *)
(* one statement on cm.db / d.db, so the calls interleave as wholes.       *)
(***************************************************************************)
MaxCourseCalls == 3

N_ARTS == <<"A","R","T","S">>
N_COURSE_DESIGN == <<"C","o","u","r","s","e"," ","D","e","s","i","g","n">>
\* the pattern of `LIKE 'Course%'` without its wildcard
P_Course == <<"C","o","u","r","s","e">>

\* name LIKE prefix || '%'
HasPrefix(name, prefix) ==
    /\ Len(name) >= Len(prefix)
    /\ \A k \in 1..Len(prefix) : name[k] = prefix[k]

\* UpsertCourse: INSERT ... ON CONFLICT (corcode) DO UPDATE SET "COURSE
\* NAME" = EXCLUDED."COURSE NAME" WHERE courses."COURSE NAME" LIKE
\* 'Course%' RETURNING "COURSE NAME".  When the WHERE keeps the stored row
\* the statement returns no row and Scan fails with sql.ErrNoRows.
UpsertCourse(table, code, name) ==
    IF ~\E r \in table : r.corcode = code
    THEN [table |-> table \cup {[corcode |-> code, name |-> name]}, err |-> FALSE]
    ELSE IF \E r \in table : r.corcode = code /\ HasPrefix(r.name, P_Course)
    THEN [table |-> {r \in table : r.corcode # code}
                      \cup {[corcode |-> code, name |-> name]},
          err |-> FALSE]
    ELSE [table |-> table, err |-> TRUE]

\* the names a course file supplies
SuppliedNames == {N_LAW, N_ARTS, N_COURSE_DESIGN}

UpsertCallKinds ==
    { [op |-> "upsert", code |-> c, name |-> n, pc |-> "call", err |-> "none"] :
        c \in {C_100202H, C_100203H}, n \in SuppliedNames }
    \cup
    { [op |-> "transform", code |-> c, name |-> <<>>, pc |-> "call", err |-> "none"] :
        c \in {C_100202H, C_100203H} }

\* courseMapper.UpsertCourse(courseCode, courseName), line 2545
UpsertCourseCall(c) ==
    /\ ccalls[c].op = "upsert" /\ ccalls[c].pc = "call"
    /\ LET u == UpsertCourse(courses, ccalls[c].code, ccalls[c].name) IN
       /\ courses' = u.table
       /\ ccalls' = [ccalls EXCEPT ![c].pc = "done",
                                   ![c].err = IF u.err THEN "noRows" ELSE "none"]
    /\ UNCHANGED <<cfgVars, loaderVars, analyzerVars, mapperVars, probeVars, historical,
                   uniqueIndex>>

UpsertInit ==
    /\ variant = "B"
    /\ headers = HeadersCamel /\ required = <<>>
    /\ cfgBatchSize = 0 /\ cfgWorkerCount = 0
    /\ file = <<>>
    /\ cancelled = FALSE /\ faultsLeft = 0
    /\ LoaderStart
    /\ work = {} /\ store = {} /\ storeAtCancel = {}
    /\ run = 1 /\ storeAfterRun1 = {}
    /\ AnalyzerIdle
    /\ MapperNew
    /\ callers = <<>>
    /\ probe = NoProbe
    /\ courses = CourseTable /\ historical = <<>>
    /\ uniqueIndex = TRUE
    /\ ccalls \in [1..MaxCourseCalls -> UpsertCallKinds]

UpsertNext ==
    \/ \E c \in 1..Len(ccalls) : UpsertCourseCall(c)
    \/ \E c \in 1..Len(ccalls) : TransformCourseCall(c)

UpsertSpec == UpsertInit /\ [][UpsertNext]_vars

(***************************************************************************)
(* Properties of ImportData.                                               *)
(***************************************************************************)
Returned == result # "none"
Completed == result \in {"ok", "failures"}
Aborted == result \in {"cancelled", "commitError", "beginError"}

\* C1: once the cancellation signal has fired, the committed candidate
\* table stays what it was at that moment: the rows executed in the
\* transaction then open never become visible, and every batch committed
\* before stays visible.
C1_CancelledBatchInvisible == cancelled => store = storeAtCancel

\* ImportData has returned after a cancellation that found rows executed in
\* the open transaction and an earlier batch committed.
C1_Witness ==
    /\ cancelled /\ Returned
    /\ txRowsAtCancel > 0
    /\ storeAtCancel # {}
    /\ store = storeAtCancel

\* C2: ImportData gives up before EOF only for a cancellation or for a
\* Commit that the store fails by itself; a row that failed (transform
\* error or Exec error) never makes it return early.
C2_RowFailureNeverAborts == Aborted => (cancelled \/ commitFault)

\* "valid" rows of a file: all fields there, a key, a known gender, a
\* numeric lg_id
ValidRow(r) ==
    /\ Len(r) = 3
    /\ TrimSpace(r[1]) # <<>>
    /\ ToUpper(TrimSpace(r[2])) \in {V_M, V_F, V_MALE, V_FEMALE}
    /\ IsNumeric(r[3])

EmptyKeyRow(r) == Len(r) = 3 /\ TrimSpace(r[1]) = <<>>

\* exactly one data row has an empty RegNumber, every other row is valid
OneEmptyKeyFile ==
    /\ Cardinality({i \in 1..Len(file) : EmptyKeyRow(file[i])}) = 1
    /\ \A i \in 1..Len(file) : EmptyKeyRow(file[i]) \/ ValidRow(file[i])

\* C4: an upsert onto a stored row leaves its regnumber alone and never
\* replaces a non-empty field by an empty one: such a field keeps its value
\* or takes the non-empty incoming value.
C4_NonEmptyFieldKept ==
    lastUpsert.done =>
        \A b \in lastUpsert.before, a \in lastUpsert.after, i \in lastUpsert.incoming :
            /\ a.regnumber = b.regnumber
            /\ \A c \in {"gender", "lg_id"} :
                 ~IsEmptyValue(b[c]) =>
                    \/ a[c] = b[c]
                    \/ a[c] = i[c] /\ ~IsEmptyValue(i[c])

\* C6 (Loader half): on a file with exactly one empty-RegNumber row among
\* valid rows, a run that no environment fault disturbed completes and
\* reports failed = 1 and succeeded = rows - 1.
C6_EmptyKeyRowReported ==
    (OneEmptyKeyFile /\ Returned /\ ~cancelled /\ faultsLeft = MaxFaults
       /\ result # "headerError")
    => /\ Completed
       /\ failedCount = 1
       /\ successCount = Len(file) - 1

\* C7: no row with an empty or absent regnumber is handed to the upsert,
\* and none is in the candidate table.
C7_KeyAlwaysPresent ==
    /\ \A r \in execLog : ~IsEmptyValue(r.regnumber)
    /\ \A r \in store \cup work : ~IsEmptyValue(r.regnumber)

\* C8: every lg_id handed to the upsert is a canonical lga identifier or
\* the unresolved value (NULL, or the default of the LGA resolver).
C8_ForeignKeysResolved ==
    \A r \in execLog : r.lg_id \in LgaIDs \cup {Nil, LgaSentinel}

\* the required columns validateHeaders left without a mapping
Unmapped == {required[i] : i \in {k \in 1..Len(required) :
                                     required[k] \notin DOMAIN columnMapping}}

\* C9: when ImportData returns the missing-columns error, the error names
\* every required column left unmapped, each once, and no data row has been
\* read or executed.
C9_MissingColumnsAllNamed ==
    result = "headerError" =>
        /\ Len(missingColumns) > 0
        /\ {missingColumns[i] : i \in 1..Len(missingColumns)} = Unmapped
        /\ Len(missingColumns) = Cardinality(Unmapped)
        /\ pos = 1 /\ batch = <<>>
        /\ handled = 0 /\ readErrors = 0 /\ execLog = {}
        /\ store = {}

\* the missing-columns error for two unmapped columns, a third column of
\* the header row being of no use
C9_Witness ==
    /\ result = "headerError"
    /\ Len(missingColumns) = 2
    /\ pos = 1 /\ execLog = {}

\* C10: when ImportData returns the missing-columns error it has sent no
\* query to the store and begun no transaction.
C10_PreflightBeforeStore ==
    result = "headerError" => (queries = 0 /\ txs = <<>>)

\* C3: when the second run on the same file has returned, the candidate
\* table is what the first run left: the same regnumbers, the same value in
\* every field.
C3_SecondRunChangesNothing ==
    (run = 2 /\ result # "none") => store = storeAfterRun1

\* the second run has completed on a table where the first one left a row
\* that two lines of the file wrote to
C3_Witness ==
    /\ run = 2 /\ result \in {"ok", "failures"}
    /\ successCount >= 2
    /\ lastUpsert.done /\ lastUpsert.before # {}
    /\ lastUpsert.before # lastUpsert.after
    /\ store # {} /\ store = storeAfterRun1

\* the rows (numbered from 0) a merged chunk stands for
ChunkRows(m) == {m.start + k : k \in 0..(m.rows - 1)}

\* C5: when the analysis has ended, the ProcessedRows of the merged chunks
\* add up to the number of data rows, and every row lies in exactly one
\* merged chunk.
C5_ChunksCoverRowsOnce ==
    apc = "done" =>
        /\ aTotalProcessed = Len(file)
        /\ \A r \in 0..(Len(file) - 1) :
             Cardinality({k \in 1..Len(merged) : r \in ChunkRows(merged[k])}) = 1
        /\ \A k \in 1..Len(merged) : ChunkRows(merged[k]) \subseteq 0..(Len(file) - 1)

\* an analysis of three rows ended after merging the chunks of several
\* workers, a later chunk first
C5_Witness ==
    /\ apc = "done"
    /\ Len(file) = 3
    /\ Len(merged) >= 2
    /\ merged[1].start > 0
    /\ aTotalProcessed = 3

(***************************************************************************)
(* Properties of the resolvers.                                            *)
(***************************************************************************)
\* C11: when several goroutines call resolve on one resolver instance, the
\* body of the load runs once, and no call does its lookup against a map
\* other than the one the finished load left: every call that has looked
\* up read all the rows of the table.
C11_LookupAfterSingleLoad ==
    /\ bodyRuns <= 1
    /\ \A c \in 1..Len(callers) :
         callers[c].pc = "done" => callers[c].view = Len(StateTable)

\* C12: once AnalyzeFailedImports has launched a worker, the resolver cache
\* is fully loaded: the load happened before the fan-out, so no worker has
\* to trigger it.
C12_CachesLoadedBeforeFanOut ==
    launched > 0 => (prepared /\ loadedRows = Len(StateTable))

\* C13: an analysis opens no transaction and executes no upsert, the
\* candidate table stays as it was, nothing is written to
\* historical_course_codes, every row the courses table had is still there
\* unchanged, and every row added to it is a placeholder "Course <code>".
C13_AnalysisWritesPlaceholdersOnly ==
    /\ txs = <<>> /\ execLog = {} /\ txRows = 0
    /\ store = {} /\ work = {}
    /\ historical = <<>>
    /\ \A r \in CourseTable : r \in courses
    /\ \A r \in courses \ CourseTable : r.name = N_Course \o r.corcode

\* an analysis that is over, of a file with a course code the table has
\* and one it has not, for which a placeholder was inserted
C13_Witness ==
    /\ apc = "done"
    /\ \E i \in 1..Len(file) : file[i] = RowKnownCourse
    /\ \E r \in courses : r.corcode = C_100203H /\ r \notin CourseTable

\* the canonical identifier of row i of the states table, as transformState
\* returns it
CanonicalValue(i) == [err |-> FALSE, value |-> Itoa(StateTable[i].st_id)]

\* is the input the name of row i with its space written as a dash, in
\* any letter case and with surrounding whitespace
IsDashSpelling(input, i) ==
    LET u == ToUpper(TrimSpace(input))
        d == Dashed(StateTable[i].st_name)
    IN  /\ i \in SpacedStates
        /\ Len(u) = Len(d)
        /\ \A k \in 1..Len(d) : u[k] = d[k]

\* C14: for every state name of the table that contains a space, the
\* spelling with a dash in place of the space, in any letter case and with
\* surrounding whitespace, resolves to the identifier of that state, through
\* transformState and through GetStateID alike.
C14_DashSpellingResolves ==
    \A i \in 1..Len(StateTable) :
        IsDashSpelling(probe.input, i) =>
            /\ probe.transformed => probe.value = CanonicalValue(i)
            /\ probe.lookedUp => probe.direct = [err |-> FALSE, id |-> StateTable[i].st_id]

\* "  cross-river " has gone through transformState and GetStateID
C14_Witness ==
    /\ probe.transformed /\ probe.lookedUp
    /\ probe.input = Spaces(MaxPad) \o ToLower(Dashed(S_CROSS_RIVER)) \o Spaces(MaxPad)
    /\ probe.value = [err |-> FALSE, value |-> Itoa(9)]

\* C15: transformState fails on no input; a non-empty input yields the
\* identifier of a row of the table or the sentinel, and an input that
\* matches no state yields the sentinel.
C15_StateNeverFailsRow ==
    probe.transformed =>
        /\ ~probe.value.err
        /\ probe.input # <<>> =>
             \/ probe.value.value = Itoa(StateSentinel)
             \/ \E i \in 1..Len(StateTable) : probe.value = CanonicalValue(i)
        /\ ToUpper(TrimSpace(probe.input)) \in UnknownNames =>
             probe.value.value = Itoa(StateSentinel)

\* " nowhere" went through transformState and came out as the sentinel,
\* while GetStateID on it returned an error
C15_Witness ==
    /\ probe.transformed /\ probe.lookedUp
    /\ probe.input = Spaces(MaxPad) \o ToLower(S_NOWHERE)
    /\ probe.direct.err
    /\ probe.value = [err |-> FALSE, value |-> Itoa(StateSentinel)]

\* C16: a course code that is absent from the courses table is not
\* defaulted silently by the transform pipeline: once transformCourse has
\* handled a well-formed code the table did not have, the call has failed
\* with the historical-course condition and historical_course_codes holds
\* an audit row for the code.
C16_AbsentCourseAudited ==
    \A c \in 1..Len(ccalls) :
        ( /\ ccalls[c].op = "transform" /\ ccalls[c].pc = "done"
          /\ Len(CleanCourseCode(ccalls[c].code)) = 7
          /\ CleanCourseCode(ccalls[c].code) \notin courseCodes )
        => /\ ccalls[c].err = "historical"
           /\ \E i \in 1..Len(historical) :
                historical[i].old_course_code = CleanCourseCode(ccalls[c].code)

\* C17: historical_course_codes holds at most one row per (year, old code,
\* institution), whatever resolutions ran and however they interleaved.
C17_OneAuditRowPerKey ==
    \A i, j \in 1..Len(historical) : historical[i] = historical[j] => i = j

\* two resolutions of the same absent code for the same year and
\* institution have both failed, and the table holds the one row
C17_Witness ==
    /\ Len(ccalls) >= 2
    /\ ccalls[1] = ccalls[2]
    /\ ccalls[1].op = "validate" /\ ccalls[1].pc = "done" /\ ccalls[1].err = "historical"
    /\ Len(historical) = 1

(***************************************************************************)
(* More properties of ImportData.                                          *)
(***************************************************************************)
\* C18: once the loader has observed the cancellation signal it attempts
\* no commit and returns the cancellation error: a run that has observed
\* the signal and has returned has returned "cancelled", not the error of
\* a commit.
C18_CancelObservedReturnsCancelled ==
    (cancelSeen /\ Returned) => result = "cancelled"

\* C19: a row's upsert is attempted at most MaxRetries times, with waits
\* that grow from one attempt to the next, and the row is recorded as
\* failed only after MaxRetries failed attempts.
C19_FailedAfterThreeAttempts ==
    /\ lastAttempts <= MaxRetries
    /\ \A k \in 1..(Len(lastWaits) - 1) : lastWaits[k] < lastWaits[k + 1]
    /\ lastFailed => lastAttempts = MaxRetries

\* C20: with RegNumber required and a header row that has Reg_No and no
\* exact match, once validateHeaders has run the pair has scored a
\* confidence of at least 0.6 and RegNumber is not reported missing.
C20_RegNoOfferedForRegNumber ==
    ( /\ (columnMapping # <<>> \/ missingColumns # <<>>)
      /\ \E k \in 1..Len(required) : required[k] = H_RegNumber
      /\ \E k \in 1..Len(headers) : headers[k] = H_Reg_No
      /\ getColumnIndex(variant, headers, H_RegNumber) = 0 )
    => /\ 10 * Confidence(H_RegNumber, H_Reg_No).num >= 6 * Confidence(H_RegNumber, H_Reg_No).den
       /\ \A k \in 1..Len(missingColumns) : missingColumns[k] # H_RegNumber

\* config.BatchSize once NewDataImporter has put DefaultBatchSize (BatchRows
\* here) in place of 0
ConfiguredBatchSize == IF cfgBatchSize = 0 THEN BatchRows ELSE cfgBatchSize

\* a step in which tx.Commit() succeeds on the open transaction
CommitStep ==
    /\ Len(txs) > 0
    /\ txs[Len(txs)] = "open"
    /\ txs'[Len(txs)] = "committed"

\* C21: whenever a transaction is committed, it holds the upserts of at
\* most config.BatchSize rows.
C21_CommitHoldsOneBatch ==
    [][CommitStep => txRows <= ConfiguredBatchSize]_vars

\* C22: when a run has come to its end (not aborted), succeeded + failed is
\* the number of data rows of the file.
C22_EveryRowCountedOnce ==
    Completed => successCount + failedCount = Len(file)

(***************************************************************************)
(* More properties of AnalyzeFailedImports.                                *)
(***************************************************************************)
FanOutOver == apc \in {"collect", "done"}

\* the number of rows of the chunk handed to worker k
ChunkSize(k) == workers[k].end - workers[k].start

\* C23 as stated: once the fan-out loop is over there are exactly
\* workerCount chunks, all of the same size, one worker each.
C23_WorkerCountEqualChunks ==
    FanOutOver =>
        /\ Len(workers) = workerCount
        /\ \A j, k \in 1..Len(workers) : ChunkSize(j) = ChunkSize(k)

\* C23 amended: once the fan-out loop is over there are at most workerCount
\* chunks, one worker each; they are not empty, follow one another from row
\* 0 to the last row, and each holds the row count divided by workerCount,
\* rounded up, except that the last one may hold fewer.
C23_ContiguousChunksOfCeilSize ==
    FanOutOver =>
        /\ Len(workers) <= workerCount
        /\ launched = Len(workers)
        /\ (Len(file) = 0) = (workers = <<>>)
        /\ \A k \in 1..Len(workers) :
             /\ ChunkSize(k) > 0
             /\ workers[k].start = IF k = 1 THEN 0 ELSE workers[k - 1].end
             /\ k = Len(workers) => workers[k].end = Len(file)
             /\ k < Len(workers) => ChunkSize(k) = ChunkSize(1)
             /\ ChunkSize(k) <= ChunkSize(1)
        /\ workers # <<>> =>
             /\ workerCount * ChunkSize(1) >= Len(file)
             /\ workerCount * (ChunkSize(1) - 1) < Len(file)

\* three rows for two workers: a chunk of two rows and a chunk of one
C23_Witness ==
    /\ apc = "done"
    /\ Len(file) = 3 /\ workerCount = 2
    /\ Len(workers) = 2
    /\ ChunkSize(1) = 2 /\ ChunkSize(2) = 1

AllWorkersDone == \A k \in 1..Len(workers) : workers[k].state = "done"

\* the chunks (by first row) whose result the collector has merged
MergedStarts == {merged[k].start : k \in 1..Len(merged)}

\* C24 as stated: no chunk result is merged before every launched worker
\* has finished, and the analysis ends only with every result merged.
C24_MergeOnlyAfterBarrier ==
    /\ merged # <<>> => (FanOutOver /\ AllWorkersDone)
    /\ apc = "done" => (results = <<>> /\ Len(merged) = Len(workers))

\* C24 amended: the collector merges a result as soon as it receives it,
\* and only results of workers that have finished; the channel is closed
\* only once, after every launched worker has finished; and the analysis
\* ends (the report is produced) only after the close, with the result of
\* every worker merged, each once.
C24_ReportAfterBarrierAndMerge ==
    /\ \A k \in 1..Len(merged) :
         \E w \in 1..Len(workers) :
            workers[w].state = "done" /\ workers[w].start = merged[k].start
    /\ \A j, k \in 1..Len(merged) : merged[j].start = merged[k].start => j = k
    /\ closed <= 1
    /\ closed = 1 => (FanOutOver /\ AllWorkersDone /\ wg = 0)
    /\ apc = "done" =>
         /\ closed = 1 /\ results = <<>>
         /\ MergedStarts = {workers[w].start : w \in 1..Len(workers)}

\* the collector has merged a result while another worker is still in
\* processChunk and the channel is open
C24_Witness ==
    /\ apc = "collect" /\ closed = 0
    /\ merged # <<>>
    /\ \E w \in 1..Len(workers) : workers[w].state = "running"

(***************************************************************************)
(* Properties of the header reconciliation.                                *)
(***************************************************************************)
\* The header validateHeaders settled on for a required field it found: the
\* header getColumnIndex matches, or else the one fuzzy match (accepted
\* automatically or by the operator).  Which of several fuzzy matches the
\* operator picked is not kept; the field's own name stands for it then.
ReconciledHeader(f) ==
    LET idx == getColumnIndex(variant, headers, f)
        ms == findBestColumnMatch(f, headers)
    IN  IF idx # 0 THEN headers[idx]
        ELSE IF Len(ms) = 1 THEN ms[1].DestinationColumn
        ELSE f

\* a column mapping whose source is the reconciled header of its field
ReconciledMapping(m) ==
    IF m.SourceColumn \in DOMAIN columnMapping
    THEN [m EXCEPT !.SourceColumn = ReconciledHeader(m.SourceColumn)]
    ELSE m

\* what transformRecord yields for a record when every reconciled field is
\* taken from the header it was reconciled to
ReconciledRecord(record) ==
    LET ms == DefaultColumnMappings(variant)
        rs == [k \in 1..Len(ms) |-> ReconciledMapping(ms[k])]
    IN  IF variant = "A" THEN transformRecordA(rs, headers, record)
        ELSE transformRecordB(rs, headers, record)

\* C25: every record processBatch has handled was transformed with the
\* values of the reconciled columns: if that transformation succeeds, its
\* parameter row is what was handed to the upsert.
C25_RowsReadThroughReconciledMapping ==
    (pc \in {"batch", "finalBatch"} /\ ~cancelSeen) =>
        \A i \in 1..Len(batch) :
            (i < bi /\ ~ReconciledRecord(batch[i]).err) =>
                ValuesToRow(ReconciledRecord(batch[i]).values) \in execLog

(***************************************************************************)
(* Properties of the courses table.                                        *)
(***************************************************************************)
\* the name transformCourse gives the course it creates
IsPlaceholder(r) == r.name = N_Course \o r.corcode

\* C26: no call changes or removes a row whose name is not the placeholder
\* "Course <code>", and an UpsertCourse on a code stored with its
\* placeholder leaves the code stored with the supplied name.
C26_GenuineNameKept ==
    [][ /\ \A r \in courses : ~IsPlaceholder(r) => r \in courses'
        /\ \A c \in 1..Len(ccalls) :
             ( /\ ccalls[c].op = "upsert"
               /\ ccalls[c].pc = "call" /\ ccalls'[c].pc = "done"
               /\ \E r \in courses : r.corcode = ccalls[c].code /\ IsPlaceholder(r) )
             => [corcode |-> ccalls[c].code, name |-> ccalls[c].name] \in courses'
      ]_vars

\* validateHeaders has run
HeadersValidated == columnMapping # <<>> \/ missingColumns # <<>>

\* the required fields with no exact header match whose best-scoring
\* header has a confidence above 0.8
HighConfidenceFields ==
    { f \in {required[k] : k \in 1..Len(required)} :
        /\ getColumnIndex(variant, headers, f) = 0
        /\ findBestColumnMatch(f, headers) # <<>>
        /\ ConfidenceAbove(findBestColumnMatch(f, headers)[1].Confidence, 8) }

\* C27: once validateHeaders has run, every required field without an
\* exact match whose best header scores above 0.8 is mapped, whatever was
\* answered at the prompts, and mapped to that best header.
C27_HighConfidenceAutoAccepted ==
    HeadersValidated =>
        \A f \in HighConfidenceFields :
            /\ \A k \in 1..Len(missingColumns) : missingColumns[k] # f
            /\ f \in DOMAIN columnMapping
            /\ columnMapping[f] = findBestColumnMatch(f, headers)[1].DestinationColumn

(***************************************************************************)
(* Transactions of ImportData.                                             *)
(***************************************************************************)
\* C28: when ImportData has returned, every transaction it began is
\* committed or rolled back.
C28_NoTransactionLeftOpen ==
    Returned => \A k \in 1..Len(txs) : txs[k] \in {"committed", "rolledback"}

(***************************************************************************)
(* Termination of AnalyzeFailedImports.                                    *)
(***************************************************************************)
AnalysisOver == apc \in {"done", "readError"}

\* C29: the analysis comes to its end; until then a worker that wants to
\* send finds room in the channel, the channel is closed at most once and
\* only when every worker has finished, and at the end the channel is
\* closed and drained.
C29_AnalysisTerminates ==
    /\ <>AnalysisOver
    /\ [](\A w \in 1..Len(workers) :
            workers[w].state = "sending" => (Len(results) < workerCount /\ closed = 0))
    /\ [](closed <= 1)
    /\ [](closed = 1 => AllWorkersDone)
    /\ [](apc = "done" => (closed = 1 /\ results = <<>> /\ AllWorkersDone))

\* an analysis of fewer rows than workers has ended
C29_Witness ==
    /\ apc = "done"
    /\ Len(file) > 0 /\ Len(file) < workerCount
    /\ closed = 1 /\ Len(merged) = Len(file)

(***************************************************************************)
(* A resolver whose load failed.                                           *)
(***************************************************************************)
\* the calls that got the initialisation error
InitErrorCalls == {c \in 1..Len(callers) : callers[c].pc = "initError"}

LoadFailed == InitErrorCalls # {}

\* C30: once the load of a resolver has failed, one call has the
\* initialisation error, the one that ran the load; the body has run once
\* and is not run again, the prepared flag is false, and every call that
\* has done its lookup did it without an initialisation error, on the map
\* as the failed load left it: empty or filled in part.
C30_LoadFailureReportedOnce ==
    LoadFailed =>
        /\ Cardinality(InitErrorCalls) = 1
        /\ bodyRuns = 1
        /\ initOnce = "done"
        /\ prepared = FALSE
        /\ loadedRows < Len(StateTable)
        /\ \A c \in 1..Len(callers) :
              /\ callers[c].pc \notin {"loading", "loaded"}
              /\ callers[c].pc = "done" =>
                    /\ callers[c].view = loadedRows
                    /\ callers[c].res =
                          GetStateID(NameToIDAfter(loadedRows), StateTable, callers[c].name)

\* a load failed after its first row, and a later call has looked its name
\* up in the one-row map
C30_Witness ==
    /\ LoadFailed
    /\ loadedRows = 1
    /\ \E c \in 1..Len(callers) : callers[c].pc = "done" /\ callers[c].view = 1

====
